---- MODULE Spec2Model ----
(***************************************************************************)
(* Passcode authentication, lockout and auto-logout of the vocabulary      *)
(* review application (config/auth.py) on top of the encrypted             *)
(* configuration store (config/api_config.py).                             *)
(*                                                                         *)
(* Time is counted in clock ticks, TicksPerSecond ticks to the second      *)
(* (datetime.now() has microsecond resolution; the model keeps a           *)
(* sub-second resolution so that int(total_seconds()) really truncates).   *)
(* Strings are sequences of character codes, code 0 being the blank.       *)
(* The Flask session is a function from the keys that are present to       *)
(* their values; session.permanent is an attribute beside it.              *)
(* ret is what the last call returned.  hist is a history variable, read   *)
(* by the properties only: the end of a lockout window that is still       *)
(* running, whether the session was logged out by expiry and has not       *)
(* authenticated since, and whether the last call cleared an elapsed       *)
(* block.                                                                  *)
(***************************************************************************)
EXTENDS Integers, Sequences, FiniteSets, TLC

VARIABLES now, session, permanent, config, config_file, key_file, ret, hist,
          requests, config_b, other, vocabulary_file

vars == <<now, session, permanent, config, config_file, key_file, ret, hist,
          requests, config_b, other, vocabulary_file>>

(* ------------------------------ bounds --------------------------------- *)

TicksPerSecond == 2
MaxLen == 1
MaxAttemptsInput == 4
MaxHoursInput == 2
MaxExcess == 1
MaxFailures == 6
MaxWords == 3
RecursionLimit == 3

(* --------------------------- strings ----------------------------------- *)

\* the blank and one letter
Chars == {0, 1}

Strings == UNION {[1..n -> Chars] : n \in 0..MaxLen}

\* str.strip(): drop leading and trailing blanks
RECURSIVE lstrip(_)
lstrip(s) == IF s # <<>> /\ Head(s) = 0 THEN lstrip(Tail(s)) ELSE s

RECURSIVE rstrip(_)
rstrip(s) ==
    IF s # <<>> /\ s[Len(s)] = 0 THEN rstrip(SubSeq(s, 1, Len(s) - 1)) ELSE s

strip(s) == rstrip(lstrip(s))

Urls == {"/word/42"}

(* ------------------------ datetime helpers ----------------------------- *)

\* datetime.isoformat(): whole seconds and the sub-second fraction
isoformat(t) == <<t \div TicksPerSecond, t % TicksPerSecond>>

\* datetime.fromisoformat()
fromisoformat(str) == str[1] * TicksPerSecond + str[2]

\* timedelta(minutes=m), timedelta(hours=h) in ticks
timedelta_minutes(m) == m * 60 * TicksPerSecond

timedelta_hours(h) == h * 60 * 60 * TicksPerSecond

\* int(delta.total_seconds()) for a non-negative delta
total_seconds_int(delta) == delta \div TicksPerSecond

Max(a, b) == IF a >= b THEN a ELSE b

Min(a, b) == IF a <= b THEN a ELSE b

(* --------------------------- session dict ------------------------------ *)

SESSION_AUTHENTICATED == "authenticated"
SESSION_LOGIN_TIME == "login_time"
SESSION_FAILED_ATTEMPTS == "failed_attempts"
SESSION_LAST_ACTIVITY == "last_activity"
SESSION_BLOCKED_UNTIL == "blocked_until"
NEXT_URL == "next_url"

\* session.get(k, d)
Get(s, k, d) == IF k \in DOMAIN s THEN s[k] ELSE d

\* session.pop(k, None), the popped value dropped
Pop(s, k) == [x \in (DOMAIN s) \ {k} |-> s[x]]

\* session[k] = v
Put(s, k, v) == [x \in (DOMAIN s) \cup {k} |-> IF x = k THEN v ELSE s[x]]

EmptySession == [x \in {} |-> TRUE]

(* ------------------------ encrypted config store ----------------------- *)

\* Fernet token under key k: the key's mark followed by the text shifted
\* out of the plain alphabet
CipherShift == Cardinality(Chars)

_encrypt_value(k, value) ==
    IF value = <<>> THEN <<>>
    ELSE <<k>> \o [i \in 1..Len(value) |-> value[i] + CipherShift]

\* the keys Fernet.generate_key may produce
Keys == {1, 2}

\* the key file is absent
NoKeyFile == 0

\* the key file holds bytes that are not a Fernet key
BadKey == 0 - 1

\* what the key file can be found to be
KeyStates == Keys \cup {NoKeyFile, BadKey}

\* stands for an exception leaving a call that returns a string
Raised == <<BadKey>>

\* the characters a secret may hold: the plain alphabet and *
PlainChars == Chars \cup {2 * Cardinality(Chars)}

\* reading the key, base64-decoding and Fernet-decrypting a stored value:
\* opening a missing file, building Fernet from bad bytes and a token not
\* made under this key all raise
fernet_decrypt(k, encrypted_value) ==
    IF k = NoKeyFile THEN [raised |-> "FileNotFoundError"]
    ELSE IF k \notin Keys THEN [raised |-> "ValueError"]
    ELSE IF \/ Len(encrypted_value) < 2
            \/ Head(encrypted_value) # k
            \/ \E i \in 2..Len(encrypted_value) :
                   encrypted_value[i] - CipherShift \notin PlainChars
    THEN [raised |-> "InvalidToken"]
    ELSE [raised |-> "",
          value |-> [i \in 1..(Len(encrypted_value) - 1) |->
                        encrypted_value[i + 1] - CipherShift]]

\* _decrypt_value that catches the token error only
_decrypt_value_invalid_token_only(k, encrypted_value) ==
    IF encrypted_value = <<>> THEN <<>>
    ELSE LET d == fernet_decrypt(k, encrypted_value)
         IN  IF d.raised = "" THEN d.value
             ELSE IF d.raised = "InvalidToken" THEN <<>>
             ELSE Raised

_decrypt_value(k, encrypted_value) ==
    IF encrypted_value = <<>> THEN <<>>
    ELSE LET d == fernet_decrypt(k, encrypted_value)
         IN  IF d.raised = "" THEN d.value ELSE <<>>

\* the server section, which files written by older versions lack
DefaultServer ==
    [https_enabled |-> TRUE,
     host |-> "0.0.0.0",
     port |-> 8080,
     cert_file |-> "certs/cert.pem",
     key_file |-> "certs/key.pem",
     force_https |-> FALSE]

DefaultConfig ==
    [openai |-> [api_key |-> <<>>,
                 model |-> "gpt-5-nano",
                 enabled |-> FALSE],
     gemini |-> [api_key |-> <<>>,
                 model |-> "gemini-2.5-flash-pro",
                 enabled |-> FALSE],
     settings |-> [default_provider |-> "openai",
                   timeout |-> 30,
                   max_retries |-> 3],
     auth |-> [passcode |-> <<>>,
               enabled |-> FALSE,
               auto_logout_enabled |-> TRUE,
               auto_logout_hours |-> 24,
               max_failed_attempts |-> 5],
     server |-> DefaultServer]

\* the file holds something json.load accepts
json_valid(file) == "content" \in DOMAIN file

\* _load_config: defaults on a first run, the file's structure otherwise;
\* a file that does not parse makes the method call itself again, and the
\* interpreter gives up at its recursion limit
RECURSIVE _load_config(_, _)
_load_config(file, depth) ==
    IF ~file.exists THEN [raised |-> FALSE, config |-> DefaultConfig]
    ELSE IF json_valid(file)
    THEN [raised |-> FALSE,
          config |-> IF "server" \in DOMAIN file.content THEN file.content
                     ELSE [x \in (DOMAIN file.content) \cup {"server"} |->
                               IF x = "server" THEN DefaultServer
                               ELSE file.content[x]]]
    ELSE IF depth >= RecursionLimit
    THEN [raised |-> TRUE, error |-> "RecursionError"]
    ELSE _load_config(file, depth + 1)

get_openai_api_key(cfg, k) == _decrypt_value(k, cfg.openai.api_key)

get_gemini_api_key(cfg, k) == _decrypt_value(k, cfg.gemini.api_key)

is_openai_enabled(cfg) == cfg.openai.enabled

is_gemini_enabled(cfg) == cfg.gemini.enabled

get_default_provider(cfg) == cfg.settings.default_provider

get_timeout(cfg) == cfg.settings.timeout

get_max_retries(cfg) == cfg.settings.max_retries

get_server_port(cfg) == cfg.server.port

is_auth_enabled(cfg) == cfg.auth.enabled

get_passcode(cfg, k) == _decrypt_value(k, cfg.auth.passcode)

is_passcode_configured(cfg, k) == get_passcode(cfg, k) # <<>>

verify_passcode(cfg, k, input_passcode) ==
    IF ~is_passcode_configured(cfg, k) THEN TRUE
    ELSE get_passcode(cfg, k) = input_passcode

is_auto_logout_enabled(cfg) == cfg.auth.auto_logout_enabled

get_auto_logout_hours(cfg) == cfg.auth.auto_logout_hours

get_max_failed_attempts(cfg) == cfg.auth.max_failed_attempts

\* _save_config that leaves the server section out of the file
_save_config_no_server(cfg) ==
    [exists |-> TRUE, content |-> [x \in (DOMAIN cfg) \ {"server"} |-> cfg[x]]]

\* _save_config: the whole structure overwrites the file
_save_config(cfg) == [exists |-> TRUE, content |-> cfg]

\* the character * and the mask export_config shows in place of a secret
Star == CHOOSE c \in PlainChars : c \notin Chars

Placeholder == <<Star, Star, Star>>

\* "***" if a secret is set, "" otherwise
masked(secret) == IF secret # <<>> THEN Placeholder ELSE <<>>

\* export_config working on the live structure instead of a deep copy
export_config_shared(cfg, k, include_keys) ==
    LET config_copy ==
            IF include_keys
            THEN [cfg EXCEPT !.openai.api_key = get_openai_api_key(cfg, k),
                             !.gemini.api_key = get_gemini_api_key(cfg, k),
                             !.auth.passcode = get_passcode(cfg, k)]
            ELSE [cfg EXCEPT
                    !.openai.api_key = masked(get_openai_api_key(cfg, k)),
                    !.gemini.api_key = masked(get_gemini_api_key(cfg, k)),
                    !.auth.passcode = masked(get_passcode(cfg, k))]
    IN  [result |-> config_copy, config |-> config_copy]

\* export_config: the returned copy and the structure the store keeps
export_config(cfg, k, include_keys) ==
    LET config_copy ==
            IF include_keys
            THEN [cfg EXCEPT !.openai.api_key = get_openai_api_key(cfg, k),
                             !.gemini.api_key = get_gemini_api_key(cfg, k),
                             !.auth.passcode = get_passcode(cfg, k)]
            ELSE [cfg EXCEPT
                    !.openai.api_key = masked(get_openai_api_key(cfg, k)),
                    !.gemini.api_key = masked(get_gemini_api_key(cfg, k)),
                    !.auth.passcode = masked(get_passcode(cfg, k))]
    IN  [result |-> config_copy, config |-> cfg]


(* ------------------------------ AuthManager ---------------------------- *)

\* is_passcode_required that goes by the enabled flag of the auth section
is_passcode_required_by_flag(cfg, k) == cfg.auth.enabled

is_passcode_required(cfg, k) == is_passcode_configured(cfg, k)

\* block_duration of _block_user
BlockDuration == timedelta_minutes(30)

\* logout that forgets the lockout keys
logout_keep_block(s) ==
    Pop(Pop(Pop(s, SESSION_AUTHENTICATED), SESSION_LOGIN_TIME),
        SESSION_LAST_ACTIVITY)

logout(s) ==
    Pop(Pop(Pop(Pop(Pop(s, SESSION_AUTHENTICATED), SESSION_LOGIN_TIME),
        SESSION_LAST_ACTIVITY), SESSION_FAILED_ATTEMPTS), SESSION_BLOCKED_UNTIL)

\* expiry already on the deadline itself
_is_session_expired_ge(s, t, cfg) ==
    IF ~is_auto_logout_enabled(cfg) THEN FALSE
    ELSE LET login_time_str == Get(s, SESSION_LOGIN_TIME, <<>>)
         IN  IF login_time_str = <<>> THEN TRUE
             ELSE t >= fromisoformat(login_time_str)
                       + timedelta_hours(get_auto_logout_hours(cfg))

\* expiry measured from the last activity instead of the login
_is_session_expired_idle(s, t, cfg) ==
    IF ~is_auto_logout_enabled(cfg) THEN FALSE
    ELSE LET last == Get(s, SESSION_LAST_ACTIVITY, <<>>)
         IN  IF last = <<>> THEN TRUE
             ELSE t > fromisoformat(last)
                      + timedelta_hours(get_auto_logout_hours(cfg))

_is_session_expired(s, t, cfg) ==
    IF ~is_auto_logout_enabled(cfg) THEN FALSE
    ELSE LET login_time_str == Get(s, SESSION_LOGIN_TIME, <<>>)
         IN  IF login_time_str = <<>> THEN TRUE
             ELSE LET login_time == fromisoformat(login_time_str)
                      expiry_time == login_time
                                     + timedelta_hours(get_auto_logout_hours(cfg))
                  IN  t > expiry_time

\* is_authenticated that looks at the session flag before the passcode
is_authenticated_flag_first(s, t, cfg, k) ==
    IF ~Get(s, SESSION_AUTHENTICATED, FALSE)
    THEN [result |-> FALSE, session |-> s]
    ELSE IF ~is_passcode_required(cfg, k) THEN [result |-> TRUE, session |-> s]
    ELSE IF _is_session_expired(s, t, cfg)
         THEN [result |-> FALSE, session |-> logout(s)]
    ELSE [result |-> TRUE,
          session |-> Put(s, SESSION_LAST_ACTIVITY, isoformat(t))]

\* is_authenticated that reports the expiry without logging out
is_authenticated_no_logout(s, t, cfg, k) ==
    IF ~is_passcode_required(cfg, k) THEN [result |-> TRUE, session |-> s]
    ELSE IF ~Get(s, SESSION_AUTHENTICATED, FALSE)
         THEN [result |-> FALSE, session |-> s]
    ELSE IF _is_session_expired(s, t, cfg)
         THEN [result |-> FALSE, session |-> s]
    ELSE [result |-> TRUE,
          session |-> Put(s, SESSION_LAST_ACTIVITY, isoformat(t))]

\* is_authenticated that restarts the auto-logout period on every check
is_authenticated_sliding(s, t, cfg, k) ==
    IF ~is_passcode_required(cfg, k) THEN [result |-> TRUE, session |-> s]
    ELSE IF ~Get(s, SESSION_AUTHENTICATED, FALSE)
         THEN [result |-> FALSE, session |-> s]
    ELSE IF _is_session_expired(s, t, cfg)
         THEN [result |-> FALSE, session |-> logout(s)]
    ELSE [result |-> TRUE,
          session |-> Put(Put(s, SESSION_LAST_ACTIVITY, isoformat(t)),
                          SESSION_LOGIN_TIME, isoformat(t))]

\* result of is_authenticated and the session it leaves
is_authenticated(s, t, cfg, k) ==
    IF ~is_passcode_required(cfg, k) THEN [result |-> TRUE, session |-> s]
    ELSE IF ~Get(s, SESSION_AUTHENTICATED, FALSE)
         THEN [result |-> FALSE, session |-> s]
    ELSE IF _is_session_expired(s, t, cfg)
         THEN [result |-> FALSE, session |-> logout(s)]
    ELSE [result |-> TRUE,
          session |-> Put(s, SESSION_LAST_ACTIVITY, isoformat(t))]

\* is_blocked that never reports a running block
is_blocked_lax(s, t) ==
    LET blocked_until_str == Get(s, SESSION_BLOCKED_UNTIL, <<>>)
    IN  IF blocked_until_str = <<>> THEN [blocked |-> FALSE, session |-> s]
        ELSE IF t < fromisoformat(blocked_until_str)
             THEN [blocked |-> FALSE, session |-> s]
             ELSE [blocked |-> FALSE,
                   session |-> Pop(Pop(s, SESSION_BLOCKED_UNTIL),
                                   SESSION_FAILED_ATTEMPTS)]

\* is_blocked that clears an elapsed block and keeps the failure count
is_blocked_keep_count(s, t) ==
    LET blocked_until_str == Get(s, SESSION_BLOCKED_UNTIL, <<>>)
    IN  IF blocked_until_str = <<>> THEN [blocked |-> FALSE, session |-> s]
        ELSE LET blocked_until == fromisoformat(blocked_until_str)
             IN  IF t < blocked_until
                 THEN [blocked |-> TRUE,
                       seconds |-> (blocked_until - t) \div TicksPerSecond,
                       session |-> s]
                 ELSE [blocked |-> FALSE,
                       session |-> Pop(s, SESSION_BLOCKED_UNTIL)]

\* result of is_blocked and the session it leaves; seconds is present
\* only when the result is (True, seconds_left)
is_blocked(s, t) ==
    LET blocked_until_str == Get(s, SESSION_BLOCKED_UNTIL, <<>>)
    IN  IF blocked_until_str = <<>> THEN [blocked |-> FALSE, session |-> s]
        ELSE LET blocked_until == fromisoformat(blocked_until_str)
             IN  IF t < blocked_until
                 THEN [blocked |-> TRUE,
                       seconds |-> total_seconds_int(blocked_until - t),
                       session |-> s]
                 ELSE [blocked |-> FALSE,
                       session |-> Pop(Pop(s, SESSION_BLOCKED_UNTIL),
                                       SESSION_FAILED_ATTEMPTS)]

\* minutes shown in the "still blocked" message
minutes_left(seconds_left) == Max(1, seconds_left \div 60)

\* _set_authenticated that keeps the failure count
_set_authenticated_keep_count(s, t) ==
    Pop(Put(Put(Put(s, SESSION_AUTHENTICATED, TRUE),
                SESSION_LOGIN_TIME, isoformat(t)),
            SESSION_LAST_ACTIVITY, isoformat(t)),
        SESSION_BLOCKED_UNTIL)

_set_authenticated(s, t) ==
    Pop(Pop(Put(Put(Put(s, SESSION_AUTHENTICATED, TRUE),
                    SESSION_LOGIN_TIME, isoformat(t)),
                SESSION_LAST_ACTIVITY, isoformat(t)),
            SESSION_FAILED_ATTEMPTS), SESSION_BLOCKED_UNTIL)

\* _record_failed_attempt that stores 1 instead of counting
_record_failed_attempt_reset(s) == Put(s, SESSION_FAILED_ATTEMPTS, 1)

\* _record_failed_attempt that counts every failure twice
_record_failed_attempt_by_two(s) ==
    Put(s, SESSION_FAILED_ATTEMPTS, Get(s, SESSION_FAILED_ATTEMPTS, 0) + 2)

_record_failed_attempt(s) ==
    Put(s, SESSION_FAILED_ATTEMPTS, Get(s, SESSION_FAILED_ATTEMPTS, 0) + 1)

_block_user(s, t) == Put(s, SESSION_BLOCKED_UNTIL, isoformat(t + BlockDuration))

\* result of authenticate: success, the kind of message with its number,
\* the session it leaves and whether session.permanent was set
authenticate(s, t, cfg, k, passcode) ==
    LET b == is_blocked(s, t)
    IN  IF b.blocked
        THEN [op |-> "authenticate", success |-> FALSE,
              message |-> "still_blocked",
              minutes |-> minutes_left(b.seconds),
              session |-> b.session, set_permanent |-> FALSE]
        ELSE IF verify_passcode(cfg, k, passcode)
        THEN [op |-> "authenticate", success |-> TRUE, message |-> "login_ok",
              session |-> _set_authenticated(b.session, t),
              set_permanent |-> TRUE]
        ELSE LET s1 == _record_failed_attempt(b.session)
                 failed_attempts == Get(s1, SESSION_FAILED_ATTEMPTS, 0)
                 max_attempts == get_max_failed_attempts(cfg)
             IN  IF failed_attempts >= max_attempts
                 THEN [op |-> "authenticate", success |-> FALSE,
                       message |-> "locked_out",
                       session |-> _block_user(s1, t),
                       set_permanent |-> FALSE]
                 ELSE [op |-> "authenticate", success |-> FALSE,
                       message |-> "wrong_passcode",
                       remaining |-> max_attempts - failed_attempts,
                       session |-> s1, set_permanent |-> FALSE]


(* ------------------------------ guards --------------------------------- *)

\* require_auth that drops a stale next_url when it lets the request pass
require_auth_clears_next(s, t, cfg, k, url) ==
    LET a == is_authenticated(s, t, cfg, k)
    IN  IF ~a.result
        THEN [handler_called |-> FALSE, response |-> "redirect_login",
              session |-> Put(a.session, NEXT_URL, url)]
        ELSE [handler_called |-> TRUE, response |-> "handler_result",
              session |-> Pop(a.session, NEXT_URL)]

\* require_auth around a handler that leaves the session alone
require_auth(s, t, cfg, k, url) ==
    LET a == is_authenticated(s, t, cfg, k)
    IN  IF ~a.result
        THEN [handler_called |-> FALSE, response |-> "redirect_login",
              session |-> Put(a.session, NEXT_URL, url)]
        ELSE [handler_called |-> TRUE, response |-> "handler_result",
              session |-> a.session]

\* the call took the session from s to s2 and removed an elapsed block
ClearedBlock(s, s2) ==
    /\ SESSION_BLOCKED_UNTIL \in DOMAIN s
    /\ SESSION_BLOCKED_UNTIL \notin DOMAIN s2

\* the pages behind require_auth that a browser may ask for
GuardedUrls == Urls \cup {"/settings/passcode"}

\* where the login route sends the browser
redirect(target, s, perm, msg, cleared) ==
    [response |-> "redirect", target |-> target, session |-> s,
     set_permanent |-> perm, message |-> msg, cleared |-> cleared]

\* the login form is rendered again
render_login(s, msg, cleared) ==
    [response |-> "render", target |-> "login.html", session |-> s,
     set_permanent |-> FALSE, message |-> msg, cleared |-> cleared]

\* next_url or url_for('index')
next_or_index(s) == Get(s, NEXT_URL, "index")

\* the login route that reads next_url and leaves it in the session
login_keeps_next(s, t, cfg, k, method, form) ==
    IF ~is_passcode_required(cfg, k)
    THEN redirect("api_settings", s, FALSE, "no_passcode", FALSE)
    ELSE
    LET a == is_authenticated(s, t, cfg, k)
        b == is_blocked(a.session, t)
        passcode == strip(form)
        r == authenticate(b.session, t, cfg, k, passcode)
        cleared == ClearedBlock(a.session, b.session)
    IN  IF a.result
        THEN redirect(next_or_index(a.session), a.session,
                      FALSE, "already_authenticated", FALSE)
        ELSE IF method = "POST" /\ passcode # <<>>
        THEN IF r.success
             THEN redirect(next_or_index(r.session), r.session,
                           r.set_permanent, r.message, cleared)
             ELSE render_login(r.session, r.message, cleared)
        ELSE IF method = "POST"
        THEN render_login(b.session, "empty_passcode", cleared)
        ELSE render_login(b.session, "form", cleared)

\* the /login route: GET shows the form, POST processes the passcode
login(s, t, cfg, k, method, form) ==
    IF ~is_passcode_required(cfg, k)
    THEN redirect("api_settings", s, FALSE, "no_passcode", FALSE)
    ELSE
    LET a == is_authenticated(s, t, cfg, k)
        b == is_blocked(a.session, t)
        passcode == strip(form)
        r == authenticate(b.session, t, cfg, k, passcode)
        cleared == ClearedBlock(a.session, b.session)
    IN  IF a.result
        THEN redirect(next_or_index(a.session), Pop(a.session, NEXT_URL),
                      FALSE, "already_authenticated", FALSE)
        ELSE IF method = "POST" /\ passcode # <<>>
        THEN IF r.success
             THEN redirect(next_or_index(r.session), Pop(r.session, NEXT_URL),
                           r.set_permanent, r.message, cleared)
             ELSE render_login(r.session, r.message, cleared)
        ELSE IF method = "POST"
        THEN render_login(b.session, "empty_passcode", cleared)
        ELSE render_login(b.session, "form", cleared)

\* the API endpoint the request was made to
ApiUrl == "/api/words"

\* require_auth_api that remembers the destination as require_auth does
require_auth_api_redirecting(s, t, cfg, k) ==
    LET a == is_authenticated(s, t, cfg, k)
    IN  IF ~a.result
        THEN [handler_called |-> FALSE, response |-> "AUTH_REQUIRED",
              status |-> 401, session |-> Put(a.session, NEXT_URL, ApiUrl)]
        ELSE [handler_called |-> TRUE, response |-> "handler_result",
              status |-> 200, session |-> a.session]

\* response is the error_code of the JSON payload {success: false, ...}
\* or stands for whatever the handler returned
require_auth_api(s, t, cfg, k) ==
    LET a == is_authenticated(s, t, cfg, k)
    IN  IF ~a.result
        THEN [handler_called |-> FALSE, response |-> "AUTH_REQUIRED",
              status |-> 401, session |-> a.session]
        ELSE [handler_called |-> TRUE, response |-> "handler_result",
              status |-> 200, session |-> a.session]

(* ------------------------------ the clock ------------------------------ *)

\* the instants at which requests arrive when the auto-logout deadline is
\* watched: on the deadline of a login at 0 and just after it, for one
\* and for two hours
Times ==
    {0, timedelta_hours(1), timedelta_hours(1) + 1, timedelta_hours(2) + 1}

\* the instants at which requests arrive when a lockout is watched: with
\* more than one minute left, with less than one second left, at the end
\* of the window and one window later
LockoutTimes ==
    {0, BlockDuration - timedelta_minutes(1) - TicksPerSecond - 1,
     BlockDuration - 1, BlockDuration, 2 * BlockDuration}

(* ------------------------------ state ---------------------------------- *)

\* history after is_authenticated took the session from s to s2: the
\* authenticated flag disappears only through the implicit logout
AfterCheck(h, s, s2) ==
    [h EXCEPT !.expired_logout =
                  @ \/ (SESSION_AUTHENTICATED \in DOMAIN s
                        /\ SESSION_AUTHENTICATED \notin DOMAIN s2),
              !.lazy_expiry = FALSE]

\* what a call that returns None leaves in ret
NoneRet == [op |-> "none"]

\* the requests one browser can have under way at a time
RequestIds == {1, 2}

\* no request under way
Idle == [state |-> "idle"]

\* requests.inflight: the requests under way, each with the session Flask
\* opened for it from the cookie it carried; requests.failures: the wrong
\* passcodes evaluated since the session last carried no failed attempt
NoRequests == [inflight |-> [r \in RequestIds |-> Idle], failures |-> 0]

Init ==
    /\ now = 0
    /\ session = EmptySession
    /\ permanent = FALSE
    /\ key_file = 1
    /\ config = DefaultConfig
    /\ config_file = [exists |-> FALSE]
    /\ ret = NoneRet
    /\ hist = [lockout_until |-> 0, expired_logout |-> FALSE,
               lazy_expiry |-> FALSE]
    /\ requests = NoRequests
    /\ config_b = DefaultConfig
    /\ other = [session |-> EmptySession, permanent |-> FALSE]
    /\ vocabulary_file = <<>>

\* time passes between two requests
Tick(t) ==
    /\ t > now
    /\ now' = t
    /\ hist' = [hist EXCEPT !.lockout_until = IF t >= @ THEN 0 ELSE @]
    /\ UNCHANGED <<session, permanent, config, config_file, key_file, ret,
                 requests, config_b, other, vocabulary_file>>

IsAuthenticated ==
    LET a == is_authenticated(session, now, config, key_file)
    IN  /\ session' = a.session
        /\ ret' = [op |-> "is_authenticated", result |-> a.result]
        /\ hist' = AfterCheck(hist, session, a.session)
        /\ UNCHANGED <<now, permanent, config, config_file, key_file,
                       requests, config_b, other, vocabulary_file>>

IsBlocked ==
    LET b == is_blocked(session, now)
    IN  /\ session' = b.session
        /\ ret' = IF b.blocked
                  THEN [op |-> "is_blocked", blocked |-> TRUE,
                        seconds |-> b.seconds]
                  ELSE [op |-> "is_blocked", blocked |-> FALSE]
        /\ hist' = [hist EXCEPT !.lazy_expiry = ClearedBlock(session, b.session)]
        /\ UNCHANGED <<now, permanent, config, config_file, key_file,
                       requests, config_b, other, vocabulary_file>>

Authenticate(passcode) ==
    LET r == authenticate(session, now, config, key_file, passcode)
    IN  /\ session' = r.session
        /\ permanent' = (permanent \/ r.set_permanent)
        /\ ret' = [x \in (DOMAIN r) \ {"session", "set_permanent"} |-> r[x]]
        /\ hist' = [lockout_until |->
                        IF r.message = "locked_out"
                        THEN fromisoformat(r.session[SESSION_BLOCKED_UNTIL])
                        ELSE hist.lockout_until,
                    expired_logout |-> hist.expired_logout /\ ~r.success,
                    lazy_expiry |->
                        /\ SESSION_BLOCKED_UNTIL \in DOMAIN session
                        /\ r.message # "still_blocked"]
        /\ UNCHANGED <<now, config, config_file, key_file,
                       requests, config_b, other, vocabulary_file>>

\* a POST of the passcode reaches the server: Flask opens the request's
\* session from the cookie the browser holds at this moment
BeginAuthenticate(r, passcode) ==
    /\ requests.inflight[r] = Idle
    /\ requests.failures < MaxFailures
    /\ requests' = [requests EXCEPT
                       !.inflight[r] = [state |-> "running",
                                        session |-> session,
                                        passcode |-> passcode]]
    /\ UNCHANGED <<now, session, permanent, config, config_file, key_file,
                   ret, hist, config_b, other, vocabulary_file>>

\* the request runs authenticate on its own session and the response
\* replaces the browser's cookie with it
FinishAuthenticate(r) ==
    /\ requests.inflight[r] # Idle
    /\ LET q == requests.inflight[r]
           a == authenticate(q.session, now, config, key_file, q.passcode)
       IN  /\ session' = a.session
           /\ permanent' = (permanent \/ a.set_permanent)
           /\ ret' = [x \in (DOMAIN a) \ {"session", "set_permanent"} |-> a[x]]
           /\ hist' = [lockout_until |->
                           IF a.message = "locked_out"
                           THEN fromisoformat(a.session[SESSION_BLOCKED_UNTIL])
                           ELSE hist.lockout_until,
                       expired_logout |-> hist.expired_logout /\ ~a.success,
                       lazy_expiry |->
                           /\ SESSION_BLOCKED_UNTIL \in DOMAIN q.session
                           /\ a.message # "still_blocked"]
           /\ requests' = [inflight |-> [requests.inflight EXCEPT ![r] = Idle],
                           failures |->
                               IF a.success THEN 0
                               ELSE IF a.message = "still_blocked"
                               THEN requests.failures
                               ELSE requests.failures + 1]
    /\ UNCHANGED <<now, config, config_file, key_file, config_b,
                   other, vocabulary_file>>

Logout ==
    /\ session' = logout(session)
    /\ ret' = NoneRet
    /\ hist' = [hist EXCEPT !.lazy_expiry = FALSE]
    /\ UNCHANGED <<now, permanent, config, config_file, key_file,
                   requests, config_b, other, vocabulary_file>>

\* the /logout route: open to every session, no guard
LogoutRoute ==
    /\ session' = logout(session)
    /\ ret' = [op |-> "logout_route", response |-> "redirect_login"]
    /\ hist' = [hist EXCEPT !.lazy_expiry = FALSE]
    /\ UNCHANGED <<now, permanent, config, config_file, key_file,
                   requests, config_b, other, vocabulary_file>>

RequireAuth(url) ==
    LET g == require_auth(session, now, config, key_file, url)
    IN  /\ session' = g.session
        /\ ret' = [op |-> "require_auth", handler_called |-> g.handler_called,
                   response |-> g.response]
        /\ hist' = AfterCheck(hist, session, g.session)
        /\ UNCHANGED <<now, permanent, config, config_file, key_file,
                       requests, config_b, other, vocabulary_file>>

LoginRoute(method, form) ==
    LET r == login(session, now, config, key_file, method, form)
    IN  /\ session' = r.session
        /\ permanent' = (permanent \/ r.set_permanent)
        /\ ret' = [op |-> "login", response |-> r.response,
                   target |-> r.target, message |-> r.message]
        /\ hist' = [lockout_until |->
                        IF r.message = "locked_out"
                        THEN fromisoformat(r.session[SESSION_BLOCKED_UNTIL])
                        ELSE hist.lockout_until,
                    expired_logout |->
                        /\ r.message # "login_ok"
                        /\ AfterCheck(hist, session, r.session).expired_logout,
                    lazy_expiry |-> r.cleared]
        /\ UNCHANGED <<now, config, config_file, key_file,
                       requests, config_b, other, vocabulary_file>>

RequireAuthApi ==
    LET g == require_auth_api(session, now, config, key_file)
    IN  /\ session' = g.session
        /\ ret' = [op |-> "require_auth_api",
                   handler_called |-> g.handler_called,
                   response |-> g.response, status |-> g.status]
        /\ hist' = AfterCheck(hist, session, g.session)
        /\ UNCHANGED <<now, permanent, config, config_file, key_file,
                       requests, config_b, other, vocabulary_file>>

(* ------------------------------ setters -------------------------------- *)

set_passcode(cfg, k, passcode) ==
    [cfg EXCEPT !.auth.passcode = _encrypt_value(k, passcode),
                !.auth.enabled = (strip(passcode) # <<>>)]

set_auto_logout_enabled(cfg, enabled) ==
    [cfg EXCEPT !.auth.auto_logout_enabled = enabled]

set_auto_logout_hours(cfg, hours) ==
    [cfg EXCEPT !.auth.auto_logout_hours = Max(1, Min(168, hours))]

\* set_max_failed_attempts writing under the key of the setter above it
set_max_failed_attempts_wrong_key(cfg, attempts) ==
    [cfg EXCEPT !.auth.auto_logout_hours = Max(3, Min(20, attempts))]

set_max_failed_attempts(cfg, attempts) ==
    [cfg EXCEPT !.auth.max_failed_attempts = Max(3, Min(20, attempts))]

clear_passcode(cfg, k) == set_passcode(cfg, k, <<>>)

set_openai_api_key(cfg, k, api_key) ==
    [cfg EXCEPT !.openai.api_key = _encrypt_value(k, api_key),
                !.openai.enabled = (strip(api_key) # <<>>)]

\* set_gemini_api_key that stores the key without surrounding blanks
set_gemini_api_key_stripped(cfg, k, api_key) ==
    [cfg EXCEPT !.gemini.api_key = _encrypt_value(k, strip(api_key)),
                !.gemini.enabled = (strip(api_key) # <<>>)]

set_gemini_api_key(cfg, k, api_key) ==
    [cfg EXCEPT !.gemini.api_key = _encrypt_value(k, api_key),
                !.gemini.enabled = (strip(api_key) # <<>>)]

\* the provider names set_default_provider and clear_api_key know
Providers == {"openai", "gemini"}

clear_api_key(cfg, k, provider) ==
    IF provider = "openai" THEN set_openai_api_key(cfg, k, <<>>)
    ELSE IF provider = "gemini" THEN set_gemini_api_key(cfg, k, <<>>)
    ELSE cfg

set_default_provider(cfg, provider) ==
    IF provider \in Providers
    THEN [cfg EXCEPT !.settings.default_provider = provider]
    ELSE cfg

\* set_timeout with the upper clamp only
set_timeout_no_floor(cfg, timeout) ==
    [cfg EXCEPT !.settings.timeout = Min(120, timeout)]

set_timeout(cfg, timeout) ==
    [cfg EXCEPT !.settings.timeout = Max(5, Min(120, timeout))]

set_max_retries(cfg, retries) ==
    [cfg EXCEPT !.settings.max_retries = Max(0, Min(10, retries))]

set_server_port(cfg, port) ==
    [cfg EXCEPT !.server.port = Max(1, Min(65535, port))]

\* a setter call: the in-memory structure changes and is saved whole
Store(cfg) ==
    /\ config' = cfg
    /\ config_file' = _save_config(cfg)
    /\ ret' = NoneRet
    /\ hist' = [hist EXCEPT !.lazy_expiry = FALSE]
    /\ UNCHANGED <<now, session, permanent, key_file,
                   requests, config_b, other, vocabulary_file>>

\* the exception _encrypt_value lets through for this key file and value,
\* "" when it returns
encrypt_error(k, value) ==
    IF value = <<>> THEN ""
    ELSE IF k = NoKeyFile THEN "FileNotFoundError"
    ELSE IF k \notin Keys THEN "ValueError"
    ELSE ""

\* a setter whose first statement raised: nothing is assigned or saved
Raise(error) ==
    /\ ret' = [op |-> "raised", error |-> error]
    /\ hist' = [hist EXCEPT !.lazy_expiry = FALSE]
    /\ UNCHANGED <<now, session, permanent, key_file, config, config_file,
                 requests, config_b, other, vocabulary_file>>

SetPasscode(passcode) ==
    IF encrypt_error(key_file, passcode) = ""
    THEN Store(set_passcode(config, key_file, passcode))
    ELSE Raise(encrypt_error(key_file, passcode))

SetAutoLogoutEnabled(enabled) ==
    Store(set_auto_logout_enabled(config, enabled))

SetAutoLogoutHours(hours) ==
    Store(set_auto_logout_hours(config, hours))

SetMaxFailedAttempts(attempts) ==
    Store(set_max_failed_attempts(config, attempts))

\* a call that returns without saving
Unsaved ==
    /\ ret' = NoneRet
    /\ hist' = [hist EXCEPT !.lazy_expiry = FALSE]
    /\ UNCHANGED <<now, session, permanent, key_file, config, config_file,
                 requests, config_b, other, vocabulary_file>>

ClearPasscode ==
    Store(clear_passcode(config, key_file))

SetOpenaiApiKey(api_key) ==
    IF encrypt_error(key_file, api_key) = ""
    THEN Store(set_openai_api_key(config, key_file, api_key))
    ELSE Raise(encrypt_error(key_file, api_key))

SetGeminiApiKey(api_key) ==
    IF encrypt_error(key_file, api_key) = ""
    THEN Store(set_gemini_api_key(config, key_file, api_key))
    ELSE Raise(encrypt_error(key_file, api_key))

\* a getter call: the value comes back and nothing is written
Read(op, value) ==
    /\ ret' = [op |-> op, value |-> value]
    /\ hist' = [hist EXCEPT !.lazy_expiry = FALSE]
    /\ UNCHANGED <<now, session, permanent, key_file, config, config_file,
                 requests, config_b, other, vocabulary_file>>

GetPasscode == Read("get_passcode", get_passcode(config, key_file))

GetOpenaiApiKey ==
    Read("get_openai_api_key", get_openai_api_key(config, key_file))

GetGeminiApiKey ==
    Read("get_gemini_api_key", get_gemini_api_key(config, key_file))

VerifyPasscode(input_passcode) ==
    /\ ret' = [op |-> "verify_passcode",
               result |-> verify_passcode(config, key_file, input_passcode)]
    /\ hist' = [hist EXCEPT !.lazy_expiry = FALSE]
    /\ UNCHANGED <<now, session, permanent, key_file, config, config_file,
                   requests, config_b, other, vocabulary_file>>

\* something other than the store rewrites the passcode field of the file
TamperPasscode(stored) ==
    /\ config_file.exists
    /\ json_valid(config_file)
    /\ stored # config_file.content.auth.passcode
    /\ config_file' = [config_file EXCEPT !.content.auth.passcode = stored]
    /\ UNCHANGED <<now, session, permanent, key_file, config, ret, hist,
                   requests, config_b, other, vocabulary_file>>

\* something other than the store deletes or overwrites the key file
KeyFileBecomes(k) ==
    /\ k # key_file
    /\ key_file' = k
    /\ UNCHANGED <<now, session, permanent, config, config_file, ret, hist,
                 requests, config_b, other, vocabulary_file>>

ClearApiKey(provider) ==
    IF provider \in Providers
    THEN Store(clear_api_key(config, key_file, provider))
    ELSE Unsaved

SetDefaultProvider(provider) ==
    IF provider \in Providers
    THEN Store(set_default_provider(config, provider))
    ELSE Unsaved

SetTimeout(timeout) ==
    Store(set_timeout(config, timeout))

SetMaxRetries(retries) ==
    Store(set_max_retries(config, retries))

SetServerPort(port) ==
    Store(set_server_port(config, port))

ExportConfig(include_keys) ==
    LET e == export_config(config, key_file, include_keys)
    IN  /\ config' = e.config
        /\ ret' = [op |-> "export_config", include_keys |-> include_keys,
                   result |-> e.result]
        /\ hist' = [hist EXCEPT !.lazy_expiry = FALSE]
        /\ UNCHANGED <<now, session, permanent, key_file, config_file,
                 requests, config_b, other, vocabulary_file>>

\* something other than the store leaves the file unparsable
CorruptFile ==
    /\ config_file' = [exists |-> TRUE, corrupt |-> TRUE]
    /\ UNCHANGED <<now, session, permanent, key_file, config, ret, hist,
                 requests, config_b, other, vocabulary_file>>

\* _ensure_encryption_key that writes a new key at every construction
_ensure_encryption_key_every_time(k) == Keys

\* _ensure_encryption_key: the key files it may leave, any generated key
\* when there was none and the one that was there otherwise
_ensure_encryption_key(k) == IF k = NoKeyFile THEN Keys ELSE {k}

\* APIConfigManager(): the key file is made if absent, the configuration
\* is loaded; when loading raises, no new store comes to exist and the
\* structure in memory is the one of the store constructed before
Construct ==
    LET l == _load_config(config_file, 0)
    IN  /\ key_file' \in _ensure_encryption_key(key_file)
        /\ config' = IF l.raised THEN config ELSE l.config
        /\ ret' = IF l.raised
                  THEN [op |-> "construct", raised |-> TRUE,
                        error |-> l.error]
                  ELSE [op |-> "construct", raised |-> FALSE]
        /\ hist' = [hist EXCEPT !.lazy_expiry = FALSE]
        /\ UNCHANGED <<now, session, permanent, config_file,
                       requests, config_b, other, vocabulary_file>>

\* a second store is constructed on the same directory
ConstructB ==
    LET l == _load_config(config_file, 0)
    IN  /\ key_file' \in _ensure_encryption_key(key_file)
        /\ config_b' = IF l.raised THEN config_b ELSE l.config
        /\ ret' = IF l.raised
                  THEN [op |-> "construct_b", raised |-> TRUE,
                        error |-> l.error]
                  ELSE [op |-> "construct_b", raised |-> FALSE]
        /\ hist' = [hist EXCEPT !.lazy_expiry = FALSE]
        /\ UNCHANGED <<now, session, permanent, config_file,
                       requests, config, other, vocabulary_file>>

\* a setter call on the second store when both stores keep their
\* configuration in one shared structure
StoreB_shared(cfg) ==
    /\ config_b' = cfg
    /\ config' = cfg
    /\ config_file' = _save_config(cfg)
    /\ ret' = [op |-> "none_b"]
    /\ hist' = [hist EXCEPT !.lazy_expiry = FALSE]
    /\ UNCHANGED <<now, session, permanent, key_file, requests,
                   other, vocabulary_file>>

\* a setter call on the second store: its structure changes and is saved
StoreB(cfg) ==
    /\ config_b' = cfg
    /\ config_file' = _save_config(cfg)
    /\ ret' = [op |-> "none_b"]
    /\ hist' = [hist EXCEPT !.lazy_expiry = FALSE]
    /\ UNCHANGED <<now, session, permanent, key_file, requests, config,
                   other, vocabulary_file>>

SetTimeoutB(timeout) ==
    StoreB(set_timeout(config_b, timeout))

\* sessions under the auto-logout policy, behind the guards
Next ==
    \/ \E t \in Times : Tick(t)
    \/ IsAuthenticated
    \/ \E p \in Strings : Authenticate(p)
    \/ Logout
    \/ LogoutRoute
    \/ \E u \in Urls : RequireAuth(u)
    \/ RequireAuthApi
    \/ \E p \in Strings : SetPasscode(p)
    \/ \E e \in BOOLEAN : SetAutoLogoutEnabled(e)
    \/ \E h \in 0..MaxHoursInput : SetAutoLogoutHours(h)

Spec == Init /\ [][Next]_vars

\* sessions under the failed-attempt policy
NextLockout ==
    \/ \E t \in LockoutTimes : Tick(t)
    \/ IsBlocked
    \/ \E p \in Strings : Authenticate(p)
    \/ Logout
    \/ LogoutRoute
    \/ \E p \in Strings : SetPasscode(p)
    \/ \E a \in 2..MaxAttemptsInput : SetMaxFailedAttempts(a)

SpecLockout == Init /\ [][NextLockout]_vars

\* a browser walking through the guarded pages and the login form
NextLogin ==
    \/ \E t \in Times : Tick(t)
    \/ \E u \in GuardedUrls : RequireAuth(u)
    \/ \E m \in {"GET", "POST"}, p \in Strings : LoginRoute(m, p)
    \/ LogoutRoute
    \/ \E p \in Strings : SetPasscode(p)

SpecLogin == Init /\ [][NextLogin]_vars

\* values on both sides of each end of the range lo..hi
Around(lo, hi) ==
    {lo - d : d \in 0..MaxExcess} \cup {hi + d : d \in 0..MaxExcess}

\* the secrets a caller may pass: any string, the mask itself included
Secrets == Strings \cup {Placeholder}

\* the secrets of the store, their export and the life of the file
NextStore ==
    \/ ClearPasscode
    \/ \E n \in Providers \cup {"claude"} : ClearApiKey(n)
    \/ \E p \in Secrets : SetPasscode(p)
    \/ \E a \in Secrets : SetOpenaiApiKey(a)
    \/ \E a \in Secrets : SetGeminiApiKey(a)
    \/ \E i \in BOOLEAN : ExportConfig(i)
    \/ CorruptFile
    \/ Construct

SpecStore == Init /\ [][NextStore]_vars

\* the policy and server values of the store
NextPolicy ==
    \/ \E p \in Strings : SetPasscode(p)
    \/ \E e \in BOOLEAN : SetAutoLogoutEnabled(e)
    \/ \E h \in Around(1, 168) : SetAutoLogoutHours(h)
    \/ \E a \in Around(3, 20) : SetMaxFailedAttempts(a)
    \/ \E t \in Around(5, 120) : SetTimeout(t)
    \/ \E r \in Around(0, 10) : SetMaxRetries(r)
    \/ \E q \in Around(1, 65535) : SetServerPort(q)
    \/ \E n \in Providers \cup {"claude"} : SetDefaultProvider(n)

SpecPolicy == Init /\ [][NextPolicy]_vars

\* what a secret field of the file may hold: nothing, a token made under
\* some key, a token cut down to its key mark, bytes that are no token
StoredValues ==
    {_encrypt_value(k, v) : k \in Keys, v \in Strings}
       \cup {<<k>> : k \in Keys} \cup {<<NoKeyFile>>}

\* a store that has loaded any stored values, beside any key file
InitDecrypt ==
    /\ now = 0
    /\ session = EmptySession
    /\ permanent = FALSE
    /\ key_file \in KeyStates
    /\ \E a \in StoredValues, b \in StoredValues, c \in StoredValues :
          config = [DefaultConfig EXCEPT !.openai.api_key = a,
                                         !.gemini.api_key = b,
                                         !.auth.passcode = c]
    /\ config_file = _save_config(config)
    /\ ret = NoneRet
    /\ hist = [lockout_until |-> 0, expired_logout |-> FALSE,
               lazy_expiry |-> FALSE]
    /\ requests = NoRequests
    /\ config_b = DefaultConfig
    /\ other = [session |-> EmptySession, permanent |-> FALSE]
    /\ vocabulary_file = <<>>

\* reading the secrets
NextDecrypt ==
    \/ GetPasscode
    \/ GetOpenaiApiKey
    \/ GetGeminiApiKey

SpecDecrypt == InitDecrypt /\ [][NextDecrypt]_vars

\* the passcode in force and a wrong guess
Guesses == {<<1>>, <<0, 1>>}

\* one browser whose login requests may overlap
NextRace ==
    \/ \E r \in RequestIds, p \in Guesses : BeginAuthenticate(r, p)
    \/ \E r \in RequestIds : FinishAuthenticate(r)
    \/ SetPasscode(<<1>>)

SpecRace == Init /\ [][NextRace]_vars

\* one store at work while the key file may vanish and a later store is
\* constructed beside it
NextKey ==
    \/ \E p \in Strings : SetPasscode(p)
    \/ ClearPasscode
    \/ GetPasscode
    \/ \E i \in BOOLEAN : ExportConfig(i)
    \/ Construct
    \/ ConstructB
    \/ KeyFileBecomes(NoKeyFile)

SpecKey == Init /\ [][NextKey]_vars

\* two stores on one file: the first sets secrets, the provider and the
\* port, the second is constructed at some moment and sets the timeout
NextInstances ==
    \/ \E p \in Strings : SetPasscode(p)
    \/ \E n \in Providers \cup {"claude"} : SetDefaultProvider(n)
    \/ \E q \in Around(1, 65535) : SetServerPort(q)
    \/ ConstructB
    \/ \E t \in Around(5, 120) : SetTimeoutB(t)

SpecInstances == Init /\ [][NextInstances]_vars

\* a passcode field cut down to the key mark, and bytes that are no token
TamperedValues == {<<k>> : k \in Keys} \cup {<<NoKeyFile>>}

\* sessions of a store whose key file and passcode field are changed
\* from outside
NextFailOpen ==
    \/ SetPasscode(<<1>>)
    \/ \E a \in 2..MaxAttemptsInput : SetMaxFailedAttempts(a)
    \/ \E p \in Guesses : Authenticate(p)
    \/ IsAuthenticated
    \/ \E p \in Guesses : VerifyPasscode(p)
    \/ \E k \in KeyStates : KeyFileBecomes(k)
    \/ \E c \in TamperedValues : TamperPasscode(c)
    \/ Construct

SpecFailOpen == Init /\ [][NextFailOpen]_vars

(* ------------------------- passcode settings --------------------------- *)

\* the passcodes the settings form accepts that browsers type
Passcodes == {<<1, 1, 1, 1>>, <<1, 0, 0, 1>>}

\* the fields a browser posts to /settings/passcode: the new passcode
\* typed twice alike with every current passcode and policy, and forms
\* with a missing, short, padded or mistyped new passcode
Forms ==
    UNION {[current_passcode : {<<>>} \cup Passcodes,
            new_passcode : {p}, confirm_passcode : {p},
            auto_logout_enabled : {TRUE},
            auto_logout_hours : {1, 2},
            max_failed_attempts : {3}] : p \in Passcodes}
    \cup [current_passcode : {<<>>},
          new_passcode : {<<>>, <<1>>, <<0, 1, 1, 1, 1>>, <<1, 0, 0, 1>>},
          confirm_passcode : {<<1, 1, 1, 1>>},
          auto_logout_enabled : {TRUE},
          auto_logout_hours : {1},
          max_failed_attempts : {3}]

\* the settings page is shown again and nothing was stored
back_to_settings(g, cfg, msg) ==
    [handler_called |-> g.handler_called, target |-> "settings",
     message |-> msg, session |-> g.session, config |-> cfg,
     logged_out |-> FALSE]

\* passcode_settings that logs the session out after every update
passcode_settings_always_logout(s, t, cfg, k, form) ==
    LET g == require_auth(s, t, cfg, k, "/settings/passcode")
        current_passcode == strip(form.current_passcode)
        new_passcode == strip(form.new_passcode)
        confirm_passcode == strip(form.confirm_passcode)
        saved == set_max_failed_attempts(
                     set_auto_logout_hours(
                         set_auto_logout_enabled(
                             set_passcode(cfg, k, new_passcode),
                             form.auto_logout_enabled),
                         form.auto_logout_hours),
                     form.max_failed_attempts)
    IN  IF ~g.handler_called
        THEN [handler_called |-> FALSE, target |-> "login",
              message |-> "login_required", session |-> g.session,
              config |-> cfg, logged_out |-> FALSE]
        ELSE IF new_passcode = <<>>
        THEN back_to_settings(g, cfg, "new_passcode_missing")
        ELSE IF Len(new_passcode) < 4 \/ Len(new_passcode) > 50
        THEN back_to_settings(g, cfg, "bad_length")
        ELSE IF new_passcode # confirm_passcode
        THEN back_to_settings(g, cfg, "mismatch")
        ELSE IF is_passcode_configured(cfg, k) /\ current_passcode = <<>>
        THEN back_to_settings(g, cfg, "current_passcode_missing")
        ELSE IF /\ is_passcode_configured(cfg, k)
                /\ ~verify_passcode(cfg, k, current_passcode)
        THEN back_to_settings(g, cfg, "current_passcode_wrong")
        ELSE IF encrypt_error(k, new_passcode) # ""
        THEN back_to_settings(g, cfg, "save_error")
        ELSE [handler_called |-> TRUE, target |-> "login",
              message |-> "relogin", session |-> logout(g.session),
              config |-> saved, logged_out |-> TRUE]

\* the POST /settings/passcode route behind require_auth: the response,
\* the session it leaves and the configuration the store holds afterwards
passcode_settings(s, t, cfg, k, form) ==
    LET g == require_auth(s, t, cfg, k, "/settings/passcode")
        current_passcode == strip(form.current_passcode)
        new_passcode == strip(form.new_passcode)
        confirm_passcode == strip(form.confirm_passcode)
        saved == set_max_failed_attempts(
                     set_auto_logout_hours(
                         set_auto_logout_enabled(
                             set_passcode(cfg, k, new_passcode),
                             form.auto_logout_enabled),
                         form.auto_logout_hours),
                     form.max_failed_attempts)
    IN  IF ~g.handler_called
        THEN [handler_called |-> FALSE, target |-> "login",
              message |-> "login_required", session |-> g.session,
              config |-> cfg, logged_out |-> FALSE]
        ELSE IF new_passcode = <<>>
        THEN back_to_settings(g, cfg, "new_passcode_missing")
        ELSE IF Len(new_passcode) < 4 \/ Len(new_passcode) > 50
        THEN back_to_settings(g, cfg, "bad_length")
        ELSE IF new_passcode # confirm_passcode
        THEN back_to_settings(g, cfg, "mismatch")
        ELSE IF is_passcode_configured(cfg, k) /\ current_passcode = <<>>
        THEN back_to_settings(g, cfg, "current_passcode_missing")
        ELSE IF /\ is_passcode_configured(cfg, k)
                /\ ~verify_passcode(cfg, k, current_passcode)
        THEN back_to_settings(g, cfg, "current_passcode_wrong")
        ELSE IF encrypt_error(k, new_passcode) # ""
        THEN back_to_settings(g, cfg, "save_error")
        ELSE IF current_passcode = <<>>
        THEN [handler_called |-> TRUE, target |-> "login",
              message |-> "relogin", session |-> logout(g.session),
              config |-> saved, logged_out |-> TRUE]
        ELSE [handler_called |-> TRUE, target |-> "settings",
              message |-> "updated", session |-> g.session,
              config |-> saved, logged_out |-> FALSE]

\* the POST /settings/passcode/clear route behind require_auth
clear_passcode_route(s, t, cfg, k) ==
    LET g == require_auth(s, t, cfg, k, "/settings/passcode/clear")
    IN  IF ~g.handler_called
        THEN [handler_called |-> FALSE, target |-> "login",
              message |-> "login_required", session |-> g.session,
              config |-> cfg, logged_out |-> FALSE]
        ELSE [handler_called |-> TRUE, target |-> "index",
              message |-> "cleared", session |-> logout(g.session),
              config |-> clear_passcode(cfg, k), logged_out |-> TRUE]

\* a settings route ran for the browser whose request is being served
Served(op, r) ==
    /\ session' = r.session
    /\ config' = r.config
    /\ config_file' = IF r.config = config THEN config_file
                      ELSE _save_config(r.config)
    /\ ret' = [op |-> op, handler_called |-> r.handler_called,
               target |-> r.target, logged_out |-> r.logged_out]
    /\ hist' = AfterCheck(hist, session, r.session)
    /\ UNCHANGED <<now, permanent, key_file, requests, config_b,
                   other, vocabulary_file>>

PasscodeSettings(form) ==
    Served("passcode_settings",
           passcode_settings(session, now, config, key_file, form))

ClearPasscodeRoute ==
    Served("clear_passcode",
           clear_passcode_route(session, now, config, key_file))

\* the next request comes from the other browser, with its own cookie
SwitchBrowser ==
    /\ session' = other.session
    /\ permanent' = other.permanent
    /\ other' = [session |-> session, permanent |-> permanent]
    /\ ret' = NoneRet
    /\ hist' = [lockout_until |-> 0, expired_logout |-> FALSE,
                lazy_expiry |-> FALSE]
    /\ UNCHANGED <<now, config, config_file, key_file, requests, config_b,
                   vocabulary_file>>

\* two browsers use the login form and the settings pages of one
\* server; the only passcode typed into the login form is the first one
NextSessions ==
    \/ \E t \in {0, timedelta_hours(1) + 1} : Tick(t)
    \/ LoginRoute("POST", <<1, 1, 1, 1>>)
    \/ IsAuthenticated
    \/ LogoutRoute
    \/ \E form \in Forms : PasscodeSettings(form)
    \/ ClearPasscodeRoute
    \/ SwitchBrowser

SpecSessions == Init /\ [][NextSessions]_vars

(* ------------------------------ vocabulary ----------------------------- *)

\* Word texts are sequences of characters: 0 is a blank, 1 and 2 are
\* lower-case letters, 3 and 4 the same letters in upper case.
\* str.lower
lower(s) == [i \in DOMAIN s |-> IF s[i] > 2 THEN s[i] - 2 ELSE s[i]]

\* Word.__init__: the text fields are stripped
Word(word, chinese_meaning, word_id) ==
    [id |-> word_id, word |-> strip(word),
     chinese_meaning |-> strip(chinese_meaning)]

\* Word.validate: the list of errors, as a set
validate(w) ==
    {e \in {"word_empty", "meaning_empty", "word_long", "meaning_long"} :
        \/ e = "word_empty" /\ w.word = <<>>
        \/ e = "meaning_empty" /\ w.chinese_meaning = <<>>
        \/ e = "word_long" /\ Len(w.word) > 100
        \/ e = "meaning_long" /\ Len(w.chinese_meaning) > 200}

\* _load_data: every stored entry goes through Word.from_dict and so
\* through Word.__init__
_load_data(file) ==
    [i \in DOMAIN file |->
        Word(file[i].word, file[i].chinese_meaning, file[i].id)]

word_exists(file, word) ==
    \E i \in DOMAIN file : lower(_load_data(file)[i].word) = lower(word)

\* add_word: what it raises and the data file it leaves
add_word(file, w) ==
    IF validate(w) # {} \/ word_exists(file, w.word)
    THEN [raised |-> "ValueError", file |-> file]
    ELSE [raised |-> "", file |-> Append(_load_data(file), w)]

\* add_words_batch: the counts it returns and the data file it leaves
add_words_batch(file, words) ==
    LET loop[i \in 0..Len(words)] ==
            IF i = 0
            THEN [successful_words |-> <<>>, failed_words |-> <<>>,
                  duplicate_words |-> <<>>]
            ELSE LET r == loop[i - 1]
                     w == words[i]
                 IN  IF validate(w) # {}
                     THEN [r EXCEPT !.failed_words = Append(@, w.word)]
                     ELSE IF \/ word_exists(file, w.word)
                             \/ \E j \in DOMAIN r.successful_words :
                                   lower(r.successful_words[j].word)
                                       = lower(w.word)
                     THEN [r EXCEPT !.duplicate_words = Append(@, w.word)]
                     ELSE [r EXCEPT !.successful_words = Append(@, w)]
        r == loop[Len(words)]
    IN  [success_count |-> Len(r.successful_words),
         error_count |-> Len(r.failed_words),
         total_count |-> Len(words),
         duplicate_words |-> r.duplicate_words,
         file |-> IF r.successful_words = <<>> THEN file
                  ELSE _load_data(file) \o r.successful_words]

\* update_word with the fields of kwargs: setattr stores them as given
update_word(file, word_id, kwargs) ==
    LET vocabulary == _load_data(file)
        found == {i \in DOMAIN vocabulary : vocabulary[i].id = word_id}
        at == CHOOSE i \in found : \A j \in found : i <= j
        word == [x \in DOMAIN vocabulary[at] |->
                    IF x \in DOMAIN kwargs THEN kwargs[x]
                    ELSE vocabulary[at][x]]
    IN  IF found = {}
        THEN [found |-> FALSE, raised |-> "", file |-> file]
        ELSE IF validate(word) # {}
        THEN [found |-> TRUE, raised |-> "ValueError", file |-> file]
        ELSE [found |-> TRUE, raised |-> "",
              file |-> [vocabulary EXCEPT ![at] = word]]

\* delete_word: the first entry with the id is removed
delete_word(file, word_id) ==
    LET vocabulary == _load_data(file)
        found == {i \in DOMAIN vocabulary : vocabulary[i].id = word_id}
        at == CHOOSE i \in found : \A j \in found : i <= j
    IN  IF found = {} THEN [success |-> FALSE, file |-> file]
        ELSE [success |-> TRUE,
              file |-> SubSeq(vocabulary, 1, at - 1)
                       \o SubSeq(vocabulary, at + 1, Len(vocabulary))]

\* a call of the vocabulary service returned r and left the data file
Returned(r, file) ==
    /\ vocabulary_file' = file
    /\ ret' = r
    /\ hist' = [hist EXCEPT !.lazy_expiry = FALSE]
    /\ UNCHANGED <<now, session, permanent, config, config_file, key_file,
                   requests, config_b, other>>

\* add_word(Word(word, chinese_meaning)): the id is a fresh uuid4
AddWord(word, chinese_meaning, word_id) ==
    LET w == Word(word, chinese_meaning, word_id)
        r == add_word(vocabulary_file, w)
    IN  /\ Len(vocabulary_file) < MaxWords
        /\ \A i \in DOMAIN vocabulary_file : vocabulary_file[i].id # word_id
        /\ Returned([op |-> "add_word", word |-> w, raised |-> r.raised],
                    r.file)

AddWordsBatch(words) ==
    LET r == add_words_batch(vocabulary_file, words)
    IN  /\ Len(vocabulary_file) + Len(words) <= MaxWords
        /\ \A i \in DOMAIN words :
              /\ \A j \in DOMAIN vocabulary_file :
                    vocabulary_file[j].id # words[i].id
              /\ \A j \in DOMAIN words : words[j].id = words[i].id => i = j
        /\ Returned([op |-> "add_words_batch",
                     success_count |-> r.success_count,
                     error_count |-> r.error_count,
                     total_count |-> r.total_count,
                     duplicate_words |-> r.duplicate_words], r.file)

UpdateWord(word_id, kwargs) ==
    LET r == update_word(vocabulary_file, word_id, kwargs)
    IN  Returned([op |-> "update_word", found |-> r.found,
                  raised |-> r.raised], r.file)

DeleteWord(word_id) ==
    LET r == delete_word(vocabulary_file, word_id)
    IN  Returned([op |-> "delete_word", success |-> r.success], r.file)

\* the word texts callers pass: none, a letter in both cases, another
\* letter, and a letter after a blank
Texts == {<<>>, <<1>>, <<3>>, <<2>>, <<0, 1>>}

\* the vocabulary service used by one caller at a time; batches hold up
\* to two words
NextVocabulary ==
    \/ \E word \in Texts, chinese_meaning \in {<<>>, <<1>>},
          word_id \in 1..MaxWords :
          AddWord(word, chinese_meaning, word_id)
    \/ \E n \in 0..2 :
          \E words \in [1..n -> {Word(t, <<1>>, i) :
                                    t \in Texts, i \in 1..MaxWords}] :
              AddWordsBatch(words)
    \/ \E word_id \in 1..MaxWords :
          \/ \E t \in Texts : UpdateWord(word_id, [word |-> t])
          \/ UpdateWord(word_id, [chinese_meaning |-> <<>>])
    \/ \E word_id \in 1..MaxWords : DeleteWord(word_id)

SpecVocabulary == Init /\ [][NextVocabulary]_vars

\* a store whose max_failed_attempts was set to any value it accepts
\* before the session began
InitSequential ==
    /\ now = 0
    /\ session = EmptySession
    /\ permanent = FALSE
    /\ key_file = 1
    /\ \E a \in 2..MaxAttemptsInput :
          config = set_max_failed_attempts(DefaultConfig, a)
    /\ config_file = _save_config(config)
    /\ ret = NoneRet
    /\ hist = [lockout_until |-> 0, expired_logout |-> FALSE,
               lazy_expiry |-> FALSE]
    /\ requests = NoRequests
    /\ config_b = DefaultConfig
    /\ other = [session |-> EmptySession, permanent |-> FALSE]
    /\ vocabulary_file = <<>>

\* one session, one call at a time, max_failed_attempts left alone
NextSequential ==
    \/ \E t \in LockoutTimes : Tick(t)
    \/ IsBlocked
    \/ IsAuthenticated
    \/ \E p \in Strings : Authenticate(p)
    \/ Logout
    \/ \E p \in Strings : SetPasscode(p)

SpecSequential == InitSequential /\ [][NextSequential]_vars

(* ------------------------------ properties ----------------------------- *)

\* the session carries a block that has not run out yet
StillBlocked ==
    /\ SESSION_BLOCKED_UNTIL \in DOMAIN session
    /\ now < fromisoformat(session[SESSION_BLOCKED_UNTIL])

\* the session carries a block that has run out and is not cleared yet
BlockElapsed ==
    /\ SESSION_BLOCKED_UNTIL \in DOMAIN session
    /\ now >= fromisoformat(session[SESSION_BLOCKED_UNTIL])

PasscodeSet == get_passcode(config, key_file) # <<>>

\* the step is authenticate(p); the first two conjuncts follow from the
\* third and are there to be evaluated first
AuthStep(p) == ret'.op = "authenticate" /\ now' = now /\ Authenticate(p)

CheckStep == ret'.op = "is_authenticated" /\ now' = now /\ IsAuthenticated

Matches(p) == p = get_passcode(config, key_file) \/ ~PasscodeSet

\* s2 is s without the keys in ks, everything else as it was
Without(s, s2, ks) ==
    /\ DOMAIN s2 = (DOMAIN s) \ ks
    /\ \A x \in DOMAIN s2 : s2[x] = s[x]

CeilDiv(a, b) == (a + b - 1) \div b

C1_Step(p) ==
    LET before == IF SESSION_BLOCKED_UNTIL \in DOMAIN session THEN 0
                  ELSE Get(session, SESSION_FAILED_ATTEMPTS, 0)
        kth == before + 1
        N == config.auth.max_failed_attempts
    IN  (~StillBlocked /\ PasscodeSet /\ ~Matches(p) /\ AuthStep(p))
        => /\ ret'.success = FALSE
           /\ session'[SESSION_FAILED_ATTEMPTS] = kth
           /\ kth < N =>
                 /\ ret'.message = "wrong_passcode"
                 /\ ret'.remaining = N - kth
                 /\ SESSION_BLOCKED_UNTIL \notin DOMAIN session'
           /\ kth >= N =>
                 /\ ret'.message = "locked_out"
                 /\ fromisoformat(session'[SESSION_BLOCKED_UNTIL])
                        = now + 30 * 60 * TicksPerSecond

\* C1: a wrong passcode on a session that is not blocked fails; the k-th
\* consecutive failure with k < max_failed_attempts reports
\* max_failed_attempts - k attempts remaining and sets no block, and the
\* failure that reaches max_failed_attempts sets blocked_until to
\* now + 30 minutes and reports the lockout, whatever the threshold is.
C1_LockoutThreshold == [][\A p \in Strings : C1_Step(p)]_vars

C1_Witness ==
    /\ ret.op = "authenticate"
    /\ ret.message = "locked_out"
    /\ SESSION_BLOCKED_UNTIL \in DOMAIN session
    /\ session[SESSION_FAILED_ATTEMPTS] = config.auth.max_failed_attempts
    /\ fromisoformat(session[SESSION_BLOCKED_UNTIL]) = now + BlockDuration

\* C2: once a lockout until T has been set, no authenticate call on the
\* session succeeds before T, whatever was called in between.
C2_NoLoginDuringLockout ==
    ~(ret.op = "authenticate" /\ ret.success /\ now < hist.lockout_until)

\* C3: while the session is blocked, authenticate fails for every input,
\* the stored passcode included, and leaves the session as it was.
C3_BlockedRejectsAll ==
    [][\A p \in Strings :
          (StillBlocked /\ AuthStep(p))
          => /\ ret'.success = FALSE
             /\ ret'.message = "still_blocked"
             /\ session' = session
             /\ permanent' = permanent]_vars

C3_Witness ==
    /\ ret.op = "authenticate"
    /\ ret.message = "still_blocked"
    /\ StillBlocked
    /\ PasscodeSet
    /\ session[SESSION_FAILED_ATTEMPTS] >= config.auth.max_failed_attempts

C4_IsBlockedStep ==
    (ret'.op = "is_blocked" /\ IsBlocked) =>
       /\ StillBlocked =>
             LET left == fromisoformat(session[SESSION_BLOCKED_UNTIL]) - now
             IN  /\ ret'.blocked
                 /\ ret'.seconds * TicksPerSecond <= left
                 /\ left < (ret'.seconds + 1) * TicksPerSecond
                 /\ session' = session
       /\ BlockElapsed =>
             /\ ~ret'.blocked
             /\ "seconds" \notin DOMAIN ret'
             /\ Without(session, session',
                        {SESSION_BLOCKED_UNTIL, SESSION_FAILED_ATTEMPTS})

C4_AuthenticateStep(p) ==
    (BlockElapsed /\ AuthStep(p)) =>
       /\ SESSION_BLOCKED_UNTIL \notin DOMAIN session'
       /\ Matches(p) =>
             ret'.success /\ SESSION_FAILED_ATTEMPTS \notin DOMAIN session'
       /\ ~Matches(p) =>
             ~ret'.success /\ session'[SESSION_FAILED_ATTEMPTS] = 1

\* C4: is_blocked reports the whole seconds left, rounded down, while the
\* block runs; the first is_blocked or authenticate call at or after
\* blocked_until reports not blocked and removes blocked_until and
\* failed_attempts, so that the stored passcode then logs in with no
\* failure count left and a wrong one counts from 1 again.
C4_LazyBlockExpiry ==
    [][C4_IsBlockedStep /\ \A p \in Strings : C4_AuthenticateStep(p)]_vars

C4_Witness ==
    /\ hist.lazy_expiry
    /\ ret.op = "authenticate"
    /\ ret.message = "wrong_passcode"
    /\ session[SESSION_FAILED_ATTEMPTS] = 1

\* C5: the minutes stated when authenticate is rejected for a block with
\* s whole seconds left are s/60 rounded up, and at least 1.
C5_MinutesRoundedUp ==
    [][\A p \in Strings :
          (StillBlocked /\ AuthStep(p))
          => LET left == fromisoformat(session[SESSION_BLOCKED_UNTIL]) - now
                 secs == left \div TicksPerSecond
             IN  ret'.minutes = Max(1, CeilDiv(secs, 60))]_vars

\* C6: with no passcode configured is_authenticated returns true in every
\* session state and leaves the session as it was.
C6_NoPasscodeBypass ==
    [][(~PasscodeSet /\ CheckStep)
       => (ret'.result /\ session' = session)]_vars

C6_Witness ==
    /\ ret.op = "is_authenticated"
    /\ ret.result
    /\ ~PasscodeSet
    /\ StillBlocked
    /\ SESSION_AUTHENTICATED \notin DOMAIN session

\* the auto-logout deadline of the session has passed
Expired ==
    /\ config.auth.auto_logout_enabled
    /\ \/ SESSION_LOGIN_TIME \notin DOMAIN session
       \/ now > fromisoformat(session[SESSION_LOGIN_TIME])
                 + config.auth.auto_logout_hours * 60 * 60 * TicksPerSecond

\* C7: with a passcode configured and the authenticated flag set,
\* is_authenticated returns false exactly when auto-logout is enabled and
\* login_time is missing or now is strictly after login_time +
\* auto_logout_hours.
C7_ExpiryRule ==
    [][(PasscodeSet /\ SESSION_AUTHENTICATED \in DOMAIN session
        /\ CheckStep)
       => (ret'.result = ~Expired)]_vars

C7_Witness ==
    /\ ret.op = "is_authenticated"
    /\ ret.result
    /\ PasscodeSet
    /\ config.auth.auto_logout_enabled
    /\ SESSION_LOGIN_TIME \in DOMAIN session
    /\ now = fromisoformat(session[SESSION_LOGIN_TIME])
             + config.auth.auto_logout_hours * 60 * 60 * TicksPerSecond

\* is_authenticated finds the session expired and logs it out
C8_Detects ==
    (PasscodeSet /\ SESSION_AUTHENTICATED \in DOMAIN session /\ Expired
     /\ CheckStep)
    => /\ ~ret'.result
       /\ DOMAIN session' \cap {SESSION_AUTHENTICATED, SESSION_LOGIN_TIME,
                                 SESSION_LAST_ACTIVITY} = {}

\* C8 as stated: after the implicit logout every later is_authenticated
\* call returns false until a new successful authenticate.
C8_Original ==
    [][C8_Detects
       /\ ((hist.expired_logout /\ CheckStep) => ~ret'.result)]_vars

\* C8: is_authenticated on an expired session returns false and removes
\* authenticated, login_time and last_activity in the same call, and every
\* later is_authenticated call made while a passcode is configured returns
\* false until a new successful authenticate.
C8_ImplicitLogout ==
    [][C8_Detects
       /\ ((hist.expired_logout /\ PasscodeSet /\ CheckStep)
           => ~ret'.result)]_vars

C8_Witness ==
    /\ hist.expired_logout
    /\ ret.op = "is_authenticated"
    /\ ~ret.result
    /\ PasscodeSet
    /\ ~config.auth.auto_logout_enabled

\* C9: authenticate on a session that is not blocked, with the stored
\* passcode or with no passcode configured, succeeds and leaves
\* authenticated set, login_time = last_activity = now, the session
\* permanent and neither failed_attempts nor blocked_until.
C9_SuccessfulLogin ==
    [][\A p \in Strings :
          (~StillBlocked /\ Matches(p) /\ AuthStep(p))
          => /\ ret'.success
             /\ session'[SESSION_AUTHENTICATED] = TRUE
             /\ fromisoformat(session'[SESSION_LOGIN_TIME]) = now
             /\ session'[SESSION_LAST_ACTIVITY] = session'[SESSION_LOGIN_TIME]
             /\ permanent'
             /\ SESSION_FAILED_ATTEMPTS \notin DOMAIN session'
             /\ SESSION_BLOCKED_UNTIL \notin DOMAIN session']_vars

C9_Witness ==
    /\ ret.op = "authenticate"
    /\ ret.success
    /\ PasscodeSet
    /\ permanent
    /\ SESSION_FAILED_ATTEMPTS \notin DOMAIN session
    /\ fromisoformat(session[SESSION_LOGIN_TIME]) = now
    /\ now > 0

\* C10: logout removes authenticated, login_time, last_activity,
\* failed_attempts and blocked_until from any session, so that the session
\* is neither blocked nor (with a passcode configured) authenticated; a
\* second logout changes nothing, and next_url and the configuration
\* store stay as they were.
C10_LogoutResets ==
    [][(ret'.op \in {"none", "logout_route"} /\ (Logout \/ LogoutRoute))
       => /\ Without(session, session',
                     {SESSION_AUTHENTICATED, SESSION_LOGIN_TIME,
                      SESSION_LAST_ACTIVITY, SESSION_FAILED_ATTEMPTS,
                      SESSION_BLOCKED_UNTIL})
          /\ logout(session') = session'
          /\ ~is_blocked(session', now').blocked
          /\ PasscodeSet =>
                ~is_authenticated(session', now', config', key_file').result
          /\ config' = config
          /\ config_file' = config_file
          /\ key_file' = key_file]_vars

C10_Witness ==
    /\ ret.op = "logout_route"
    /\ DOMAIN session = {NEXT_URL}
    /\ now < hist.lockout_until

\* s2 is s with last_activity set to the instant t and nothing else touched
OnlyActivity(s, s2, t) ==
    /\ DOMAIN s2 = (DOMAIN s) \cup {SESSION_LAST_ACTIVITY}
    /\ fromisoformat(s2[SESSION_LAST_ACTIVITY]) = t
    /\ \A x \in (DOMAIN s) \ {SESSION_LAST_ACTIVITY} : s2[x] = s[x]

\* C11: with a passcode configured, an is_authenticated call that returns
\* true changes nothing in the session but last_activity, which becomes
\* now; one that finds the authenticated flag unset returns false and
\* leaves the session as it was.
C11_CheckFrame ==
    [][(PasscodeSet /\ CheckStep)
       => /\ ret'.result => OnlyActivity(session, session', now)
          /\ SESSION_AUTHENTICATED \notin DOMAIN session
                => (~ret'.result /\ session' = session)]_vars

C11_Witness ==
    /\ ret.op = "is_authenticated"
    /\ ret.result
    /\ PasscodeSet
    /\ NEXT_URL \in DOMAIN session
    /\ SESSION_FAILED_ATTEMPTS \in DOMAIN session
    /\ fromisoformat(session[SESSION_LAST_ACTIVITY]) = now
    /\ fromisoformat(session[SESSION_LOGIN_TIME]) < now

\* is_authenticated would answer false in this state
NotAuthenticated ==
    /\ PasscodeSet
    /\ SESSION_AUTHENTICATED \notin DOMAIN session \/ Expired

ApiStep == ret'.op = "require_auth_api" /\ now' = now /\ RequireAuthApi

GuardStep(u) == ret'.op = "require_auth" /\ now' = now /\ RequireAuth(u)

\* next_url is in s2 what it was in s
SameNextUrl(s, s2) ==
    /\ (NEXT_URL \in DOMAIN s2) = (NEXT_URL \in DOMAIN s)
    /\ NEXT_URL \in DOMAIN s => s2[NEXT_URL] = s[NEXT_URL]

\* C13: whenever is_authenticated is false, require_auth_api answers
\* AUTH_REQUIRED with status 401, does not call the handler and does not
\* write next_url.
C13_ApiGuardNeverRedirects ==
    [][(NotAuthenticated /\ ApiStep)
       => /\ ret'.response = "AUTH_REQUIRED"
          /\ ret'.status = 401
          /\ ~ret'.handler_called
          /\ SameNextUrl(session, session')]_vars

C13_Witness ==
    /\ ret.op = "require_auth_api"
    /\ ret.status = 401
    /\ ~ret.handler_called
    /\ PasscodeSet
    /\ hist.expired_logout
    /\ NEXT_URL \notin DOMAIN session

\* both guards pass an authenticated request to the handler and return
\* what it returned, and never write the configuration store
C14_PassThrough ==
    /\ \A u \in Urls :
          GuardStep(u) =>
             /\ ~NotAuthenticated
                   => (ret'.handler_called /\ ret'.response = "handler_result")
             /\ config' = config /\ config_file' = config_file
    /\ ApiStep =>
          /\ ~NotAuthenticated
                => (ret'.handler_called /\ ret'.response = "handler_result")
          /\ session' = is_authenticated(session, now, config, key_file).session
          /\ config' = config /\ config_file' = config_file

LoginStep(m, p) == ret'.op = "login" /\ now' = now /\ LoginRoute(m, p)

\* C12: a request that require_auth rejects does not reach the handler,
\* is redirected to login and leaves its URL in next_url, replacing any
\* URL stored before; a login that succeeds, or a visit to /login by an
\* authenticated session, redirects to the stored URL and removes it, and
\* redirects to the landing page when none is stored.
C12_NextUrlConsumedOnce ==
    [][/\ \A u \in GuardedUrls :
             (NotAuthenticated /\ GuardStep(u))
                => /\ ~ret'.handler_called
                   /\ ret'.response = "redirect_login"
                   /\ session'[NEXT_URL] = u
       /\ \A m \in {"GET", "POST"}, p \in Strings :
             (PasscodeSet /\ LoginStep(m, p) /\ ret'.response = "redirect")
                => /\ ret'.target = IF NEXT_URL \in DOMAIN session
                                    THEN session[NEXT_URL] ELSE "index"
                   /\ NEXT_URL \notin DOMAIN session'
                   /\ SESSION_AUTHENTICATED \in DOMAIN session']_vars

C12_Witness ==
    /\ ret.op = "login"
    /\ ret.message = "login_ok"
    /\ ret.target \in GuardedUrls \ Urls
    /\ NEXT_URL \notin DOMAIN session
    /\ hist.expired_logout = FALSE
    /\ now > 0

\* C15: after any sequence of secret setters and clears, each enabled
\* flag says whether the decrypted secret is non-empty, and
\* is_auth_enabled agrees with is_passcode_configured.
C15_EnabledMatchesSecret ==
    /\ is_auth_enabled(config) = (get_passcode(config, key_file) # <<>>)
    /\ is_openai_enabled(config)
          = (get_openai_api_key(config, key_file) # <<>>)
    /\ is_gemini_enabled(config)
          = (get_gemini_api_key(config, key_file) # <<>>)
    /\ is_auth_enabled(config) = is_passcode_configured(config, key_file)

\* min(hi, max(lo, v))
Clamp(lo, hi, v) == Min(hi, Max(lo, v))

\* every bounded value of the configuration lies in its range
InRanges ==
    /\ get_timeout(config) \in 5..120
    /\ get_max_retries(config) \in 0..10
    /\ get_auto_logout_hours(config) \in 1..168
    /\ get_max_failed_attempts(config) \in 3..20
    /\ get_server_port(config) \in 1..65535

\* C16: each bounded setter stores min(hi, max(lo, v)) for its range
\* lo..hi, whatever integer it is given, so the stored values start and
\* stay in [5,120], [0,10], [1,168], [3,20] and [1,65535].
C16_Clamping ==
    /\ InRanges
    /\ [][/\ InRanges'
          /\ \A v \in Around(5, 120) :
                SetTimeout(v) => get_timeout(config') = Clamp(5, 120, v)
          /\ \A v \in Around(0, 10) :
                SetMaxRetries(v) => get_max_retries(config') = Clamp(0, 10, v)
          /\ \A v \in Around(1, 168) :
                SetAutoLogoutHours(v)
                   => get_auto_logout_hours(config') = Clamp(1, 168, v)
          /\ \A v \in Around(3, 20) :
                SetMaxFailedAttempts(v)
                   => get_max_failed_attempts(config') = Clamp(3, 20, v)
          /\ \A v \in Around(1, 65535) :
                SetServerPort(v)
                   => get_server_port(config') = Clamp(1, 65535, v)]_vars

C16_Witness ==
    /\ get_timeout(config) = 5
    /\ get_max_retries(config) = 10
    /\ get_auto_logout_hours(config) = 168
    /\ get_max_failed_attempts(config) = 3
    /\ get_server_port(config) = 65535
    /\ config_file = _save_config(config)

\* C17: set_auto_logout_hours, set_max_failed_attempts,
\* set_auto_logout_enabled, set_timeout and set_max_retries change no
\* field of the configuration but their own, and none at all when given
\* the value the field holds; set_default_provider with an unknown name
\* changes nothing.
C17_SetterFrame ==
    [][/\ \A v \in Around(1, 168) :
             SetAutoLogoutHours(v)
                => /\ [config' EXCEPT !.auth.auto_logout_hours =
                           config.auth.auto_logout_hours] = config
                   /\ v = config.auth.auto_logout_hours => config' = config
       /\ \A v \in Around(3, 20) :
             SetMaxFailedAttempts(v)
                => /\ [config' EXCEPT !.auth.max_failed_attempts =
                           config.auth.max_failed_attempts] = config
                   /\ v = config.auth.max_failed_attempts => config' = config
       /\ \A v \in BOOLEAN :
             SetAutoLogoutEnabled(v)
                => /\ [config' EXCEPT !.auth.auto_logout_enabled =
                           config.auth.auto_logout_enabled] = config
                   /\ v = config.auth.auto_logout_enabled => config' = config
       /\ \A v \in Around(5, 120) :
             SetTimeout(v)
                => /\ [config' EXCEPT !.settings.timeout =
                           config.settings.timeout] = config
                   /\ v = config.settings.timeout => config' = config
       /\ \A v \in Around(0, 10) :
             SetMaxRetries(v)
                => /\ [config' EXCEPT !.settings.max_retries =
                           config.settings.max_retries] = config
                   /\ v = config.settings.max_retries => config' = config
       /\ SetDefaultProvider("claude")
             => (config' = config /\ config_file' = config_file)]_vars

C17_Witness ==
    /\ PasscodeSet
    /\ get_default_provider(config) = "gemini"
    /\ get_auto_logout_hours(config) = 1
    /\ get_max_failed_attempts(config) = 20
    /\ ~is_auto_logout_enabled(config)
    /\ get_timeout(config) = 120
    /\ get_max_retries(config) = 0

\* the stored field is empty for an empty secret S and differs from S
\* otherwise
StoredFor(field, S) ==
    /\ S = <<>> => field = <<>>
    /\ S # <<>> => field # S

\* C18: the getter of a secret called after its setter with S returns S,
\* the stored field is empty when S is and differs from S otherwise, and
\* the getters of the other two secrets return what they did before.
C18_SecretRoundTrip ==
    [][\A S \in Secrets :
          /\ SetPasscode(S)
                => /\ get_passcode(config', key_file') = S
                   /\ StoredFor(config'.auth.passcode, S)
                   /\ get_openai_api_key(config', key_file')
                         = get_openai_api_key(config, key_file)
                   /\ get_gemini_api_key(config', key_file')
                         = get_gemini_api_key(config, key_file)
          /\ SetOpenaiApiKey(S)
                => /\ get_openai_api_key(config', key_file') = S
                   /\ StoredFor(config'.openai.api_key, S)
                   /\ get_passcode(config', key_file')
                         = get_passcode(config, key_file)
                   /\ get_gemini_api_key(config', key_file')
                         = get_gemini_api_key(config, key_file)
          /\ SetGeminiApiKey(S)
                => /\ get_gemini_api_key(config', key_file') = S
                   /\ StoredFor(config'.gemini.api_key, S)
                   /\ get_passcode(config', key_file')
                         = get_passcode(config, key_file)
                   /\ get_openai_api_key(config', key_file')
                         = get_openai_api_key(config, key_file)]_vars

C18_Witness ==
    /\ get_passcode(config, key_file) = <<0>>
    /\ get_openai_api_key(config, key_file) = <<1>>
    /\ get_gemini_api_key(config, key_file) = Placeholder
    /\ config_file = _save_config(config)

ExportStep(i) == ret'.op = "export_config" /\ ExportConfig(i)

\* the three secret fields of a configuration structure
SecretFields(cfg) == <<cfg.openai.api_key, cfg.gemini.api_key, cfg.auth.passcode>>

\* the three secrets in the clear
Plaintexts ==
    <<get_openai_api_key(config, key_file),
      get_gemini_api_key(config, key_file),
      get_passcode(config, key_file)>>

\* C19 as stated: without keys every exported secret field is "***" or
\* empty and, for a secret that is set, neither its ciphertext nor its
\* plaintext; with keys it is the plaintext; the store is not modified.
C19_Original ==
    [][\A i \in BOOLEAN :
          ExportStep(i)
             => /\ config' = config /\ config_file' = config_file
                /\ \A n \in 1..3 :
                      LET out == SecretFields(ret'.result)[n]
                      IN  IF i THEN out = Plaintexts[n]
                          ELSE /\ out \in {Placeholder, <<>>}
                               /\ Plaintexts[n] # <<>>
                                     => /\ out # SecretFields(config)[n]
                                        /\ out # Plaintexts[n]]_vars

\* C19: without keys every exported secret field is "***" when the secret
\* is set and empty when it is not, never the stored ciphertext, and never
\* the plaintext unless the secret is itself the string "***"; with keys
\* it is the plaintext; the store is not modified.
C19_ExportMasksSecrets ==
    [][\A i \in BOOLEAN :
          ExportStep(i)
             => /\ config' = config /\ config_file' = config_file
                /\ \A n \in 1..3 :
                      LET out == SecretFields(ret'.result)[n]
                      IN  IF i THEN out = Plaintexts[n]
                          ELSE /\ out = masked(Plaintexts[n])
                               /\ Plaintexts[n] # <<>>
                                     => out # SecretFields(config)[n]
                               /\ Plaintexts[n] \notin {<<>>, Placeholder}
                                     => out # Plaintexts[n]]_vars

C19_Witness ==
    /\ ret.op = "export_config"
    /\ ~ret.include_keys
    /\ ret.result.openai.api_key = Placeholder
    /\ ret.result.gemini.api_key = <<>>
    /\ ret.result.auth.passcode = Placeholder
    /\ get_openai_api_key(config, key_file) = <<1>>
    /\ get_passcode(config, key_file) = <<0>>

ConstructStep == ret'.op = "construct" /\ Construct

\* C20: constructing the store over a file that exists and does not
\* parse raises nothing and yields the default structure.
C20_CorruptionRecovered ==
    [][(config_file.exists /\ ~json_valid(config_file) /\ ConstructStep)
          => (~ret'.raised /\ config' = DefaultConfig)]_vars

\* the tokens that decrypt under the key file as it is
Decryptable ==
    IF key_file \in Keys
    THEN {_encrypt_value(key_file, v) : v \in Strings} \ {<<>>}
    ELSE {}

\* the step is a getter call that read the stored value field
Reads(op, field) ==
    /\ ret'.op = op
    /\ field \notin Decryptable => ret'.value = <<>>
    /\ field \in Decryptable
          => _encrypt_value(key_file, ret'.value) = field
    /\ config' = config
    /\ config_file' = config_file
    /\ key_file' = key_file

\* C21: get_passcode, get_openai_api_key and get_gemini_api_key return
\* the empty string, and raise nothing, whenever the stored value does
\* not decrypt under the key file as it is (key missing, invalid or
\* another key, value cut or no token), return the plaintext when it
\* does, and leave the configuration and both files as they are.
C21_DecryptNeverRaises ==
    [][/\ GetPasscode => Reads("get_passcode", config.auth.passcode)
       /\ GetOpenaiApiKey
             => Reads("get_openai_api_key", config.openai.api_key)
       /\ GetGeminiApiKey
             => Reads("get_gemini_api_key", config.gemini.api_key)]_vars

C21_Witness ==
    /\ ret.op = "get_passcode"
    /\ ret.value = <<>>
    /\ key_file = NoKeyFile
    /\ config.auth.passcode \in {_encrypt_value(k, <<1>>) : k \in Keys}

FinishStep(r) == ret'.op = "authenticate" /\ FinishAuthenticate(r)

\* C22: a failed authenticate writes one more than the failed_attempts
\* its own request read and blocks by that number, whatever other
\* requests have written to the session since; so two overlapping
\* failures that read k leave k+1, and more than max_failed_attempts
\* wrong passcodes are evaluated with no blocked_until set.
C22_CountNotSerialized ==
    [][\A r \in RequestIds :
          (FinishStep(r) /\ ret'.message \in {"wrong_passcode", "locked_out"})
             => LET k == Get(requests.inflight[r].session,
                             SESSION_FAILED_ATTEMPTS, 0)
                IN  /\ session'[SESSION_FAILED_ATTEMPTS] = k + 1
                    /\ (SESSION_BLOCKED_UNTIL \in DOMAIN session')
                          = (k + 1 >= get_max_failed_attempts(config))]_vars

C22_Witness ==
    /\ PasscodeSet
    /\ ret.op = "authenticate"
    /\ ret.message = "wrong_passcode"
    /\ \A r \in RequestIds : requests.inflight[r] = Idle
    /\ requests.failures > get_max_failed_attempts(config)
    /\ SESSION_BLOCKED_UNTIL \notin DOMAIN session
    /\ 2 * session[SESSION_FAILED_ATTEMPTS] = requests.failures

\* the step is a call on a store, not a change made to the key file from
\* outside
StoreCall == ~(\E k \in KeyStates : KeyFileBecomes(k))

\* the three secrets as the store holding cfg reads them
SecretsOf(cfg, k) ==
    <<get_openai_api_key(cfg, k), get_gemini_api_key(cfg, k),
      get_passcode(cfg, k)>>

\* C23: a store call writes the key file only if it is a construction
\* that finds none, and then writes a key; no setter, getter, export or
\* construction changes a key file that exists, and a store constructed
\* later on what the first store saved reads every secret as the first
\* store does.
C23_KeyGeneratedOnce ==
    [][StoreCall
         => /\ key_file # NoKeyFile => key_file' = key_file
            /\ key_file' # key_file
                  => (ret'.op \in {"construct", "construct_b"}
                        /\ key_file' \in Keys)
            /\ (ConstructB /\ key_file # NoKeyFile
                   /\ config_file = _save_config(config))
                  => SecretsOf(config_b', key_file')
                        = SecretsOf(config, key_file)]_vars

C23_Witness ==
    /\ ret.op = "construct_b"
    /\ key_file \in Keys
    /\ get_passcode(config_b, key_file) = <<1>>
    /\ get_passcode(config, key_file) = <<1>>
    /\ config_file = _save_config(config)

\* what every getter of the store holding cfg returns
Getters(cfg, k) ==
    [secrets |-> SecretsOf(cfg, k),
     enabled |-> <<is_openai_enabled(cfg), is_gemini_enabled(cfg),
                   is_auth_enabled(cfg)>>,
     models |-> <<cfg.openai.model, cfg.gemini.model>>,
     default_provider |-> get_default_provider(cfg),
     policy |-> <<get_timeout(cfg), get_max_retries(cfg),
                  is_auto_logout_enabled(cfg), get_auto_logout_hours(cfg),
                  get_max_failed_attempts(cfg)>>,
     port |-> get_server_port(cfg)]

\* the step is a setter call on the first store that changed its
\* configuration
ChangedA == ret'.op = "none" /\ config' # config

\* C24: after a setter call that changes the configuration the file
\* holds the whole configuration of the store, and a store constructed
\* on the file a single store wrote returns from every getter what the
\* writing store returns.
C24_SingleWriterPersistence ==
    [][/\ ChangedA
             => /\ config_file'.exists
                /\ json_valid(config_file')
                /\ config_file'.content = config'
       /\ (ConstructB /\ config_file.exists /\ json_valid(config_file)
              /\ config_file.content = config)
             => /\ ~ret'.raised
                /\ Getters(config_b', key_file') = Getters(config, key_file)
      ]_vars

C24_Witness ==
    /\ ret.op = "construct_b"
    /\ get_passcode(config_b, key_file) = <<1>>
    /\ get_server_port(config_b) = 65535
    /\ get_default_provider(config_b) = "gemini"
    /\ config_b = config
    /\ config_file.content = config

\* the step is a setter call on the second store
SetterB == ret'.op = "none_b" /\ \E t \in Around(5, 120) : SetTimeoutB(t)

\* C25: a setter on one store writes the whole file from that store's
\* own structure and leaves the other store's structure alone, so the
\* first store never returns what the second one set and its next setter
\* takes the second one's change out of the file.
C25_TwoWritersLoseUpdates ==
    [][/\ SetterB
             => /\ Getters(config', key_file') = Getters(config, key_file)
                /\ json_valid(config_file')
                /\ config_file'.content = config_b'
       /\ ChangedA
             => /\ config_b' = config_b
                /\ json_valid(config_file')
                /\ config_file'.content = config']_vars

C25_Witness ==
    /\ ret.op = "none"
    /\ get_timeout(config_b) = 120
    /\ get_passcode(config_b, key_file) = <<>>
    /\ get_passcode(config, key_file) = <<1>>
    /\ json_valid(config_file)
    /\ get_timeout(config_file.content) = 30
    /\ get_timeout(config) = 30
    /\ config_file.content = config

\* the stored passcode is not empty and does not decrypt under the key
\* file as it is
Unreadable ==
    /\ config.auth.passcode # <<>>
    /\ config.auth.passcode \notin Decryptable

\* C26: while the stored passcode is not empty and cannot be decrypted,
\* is_passcode_configured and is_passcode_required are false,
\* verify_passcode accepts every input and is_authenticated returns true
\* for every session and leaves it as it is.
C26_FailOpen ==
    [][Unreadable
         => /\ ~is_passcode_configured(config, key_file)
            /\ ~is_passcode_required(config, key_file)
            /\ \A p \in Guesses :
                  (ret'.op = "verify_passcode" /\ VerifyPasscode(p))
                     => ret'.result
            /\ CheckStep => (ret'.result /\ session' = session)]_vars

C26_Witness ==
    /\ Unreadable
    /\ ret.op = "is_authenticated"
    /\ ret.result
    /\ SESSION_AUTHENTICATED \notin DOMAIN session
    /\ StillBlocked

\* the step is a call of is_authenticated, directly or through a guard
AnyCheck ==
    /\ ret'.op \in {"is_authenticated", "require_auth", "require_auth_api"}
    /\ now' = now
    /\ \/ IsAuthenticated
       \/ RequireAuthApi
       \/ \E u \in Urls : RequireAuth(u)

\* the check let the session through
Passed(r) == IF r.op = "is_authenticated" THEN r.result ELSE r.handler_called

\* C27: with a passcode configured, no is_authenticated or guard call
\* changes login_time, however often it refreshes last_activity, and a
\* check made with auto-logout enabled after login_time +
\* auto_logout_hours does not let the session through, whatever its
\* last_activity.
C27_AbsoluteTimeout ==
    [][(PasscodeSet /\ SESSION_AUTHENTICATED \in DOMAIN session /\ AnyCheck)
         => /\ SESSION_LOGIN_TIME \in DOMAIN session'
                  => /\ SESSION_LOGIN_TIME \in DOMAIN session
                     /\ session'[SESSION_LOGIN_TIME]
                           = session[SESSION_LOGIN_TIME]
            /\ Passed(ret')
                  => /\ fromisoformat(session'[SESSION_LAST_ACTIVITY]) = now
                     /\ ~Expired
            /\ Expired => ~Passed(ret')]_vars

C27_Witness ==
    /\ ret.op = "require_auth"
    /\ ~ret.handler_called
    /\ hist.expired_logout
    /\ PasscodeSet
    /\ config.auth.auto_logout_enabled
    /\ now = timedelta_hours(get_auto_logout_hours(config)) + 1

\* C28: in a session handled one call at a time under an unchanged
\* max_failed_attempts, failed_attempts never exceeds max_failed_attempts,
\* blocked_until is present only with failed_attempts present and at
\* least max_failed_attempts, and a failed authenticate that does not
\* lock reports between 1 and max_failed_attempts - 1 attempts left.
C28_CounterBounded ==
    /\ Get(session, SESSION_FAILED_ATTEMPTS, 0)
          <= get_max_failed_attempts(config)
    /\ SESSION_BLOCKED_UNTIL \in DOMAIN session
          => /\ SESSION_FAILED_ATTEMPTS \in DOMAIN session
             /\ session[SESSION_FAILED_ATTEMPTS]
                   >= get_max_failed_attempts(config)
    /\ (ret.op = "authenticate" /\ ret.message = "wrong_passcode")
          => ret.remaining \in 1..(get_max_failed_attempts(config) - 1)

C28_Witness ==
    /\ ret.op = "authenticate"
    /\ ret.message = "wrong_passcode"
    /\ ret.remaining = 1
    /\ session[SESSION_FAILED_ATTEMPTS] = get_max_failed_attempts(config) - 1
    /\ SESSION_BLOCKED_UNTIL \notin DOMAIN session
    /\ hist.lockout_until > 0

\* the step is one of the two passcode routes of the settings page
SettingsStep ==
    /\ ret'.op \in {"passcode_settings", "clear_passcode"}
    /\ now' = now
    /\ \/ ClearPasscodeRoute
       \/ \E form \in Forms : PasscodeSettings(form)

\* the session logged in and its login is not older than cfg allows
LoggedIn(s, cfg) ==
    /\ Get(s, SESSION_AUTHENTICATED, FALSE)
    /\ ~_is_session_expired(s, now, cfg)

\* C29: a passcode route leaves the other browser's session as it was,
\* and whatever passcode the store holds afterwards, every session that
\* logged in earlier and has not expired is authenticated without
\* presenting it, also when the passcode was cleared in between; the
\* handler removes the authenticated flag of the requesting session only
\* when it clears the passcode or sets a first one.
C29_SessionsSurviveChange ==
    [][SettingsStep
         => /\ other' = other
            /\ LoggedIn(other.session, config')
                  => is_authenticated(other'.session, now', config',
                                      key_file').result
            /\ (/\ ret'.handler_called
                /\ ret'.op = "passcode_settings"
                /\ PasscodeSet
                /\ LoggedIn(session, config'))
                  => /\ is_authenticated(session', now', config',
                                         key_file').result
                     /\ session'[SESSION_LOGIN_TIME]
                           = session[SESSION_LOGIN_TIME]
            /\ (/\ ret'.handler_called
                /\ SESSION_AUTHENTICATED \in DOMAIN session
                /\ SESSION_AUTHENTICATED \notin DOMAIN session')
                  => ret'.op = "clear_passcode" \/ ~PasscodeSet]_vars

\* a browser has just set a first passcode, the second one, after the
\* passcode the other browser logged in with was cleared: the other
\* browser is authenticated under a passcode nobody typed into the
\* login form
C29_Witness ==
    /\ ret.op = "passcode_settings"
    /\ ret.logged_out
    /\ SESSION_AUTHENTICATED \notin DOMAIN session
    /\ get_passcode(config, key_file) = <<1, 0, 0, 1>>
    /\ Get(other.session, SESSION_AUTHENTICATED, FALSE)
    /\ is_authenticated(other.session, now, config, key_file).result

\* no two entries of the data file have the same word text ignoring case
Unique ==
    \A i, j \in DOMAIN vocabulary_file :
        lower(vocabulary_file[i].word) = lower(vocabulary_file[j].word)
            => i = j

\* the step is add_word of a word of this text and meaning
AddWordStep(word, chinese_meaning) ==
    /\ ret'.op = "add_word"
    /\ \E word_id \in 1..MaxWords : AddWord(word, chinese_meaning, word_id)

\* add_word refuses an invalid or existing word without writing
C30_AddWordRefuses ==
    [][\A word \in Texts, chinese_meaning \in {<<>>, <<1>>} :
          (/\ AddWordStep(word, chinese_meaning)
           /\ \/ strip(word) = <<>>
              \/ strip(chinese_meaning) = <<>>
              \/ \E i \in DOMAIN vocabulary_file :
                    lower(vocabulary_file[i].word) = lower(strip(word)))
            => /\ ret'.raised = "ValueError"
               /\ vocabulary_file' = vocabulary_file]_vars

\* the three counts of add_words_batch add up to the batch size
C30_BatchCounts ==
    ret.op = "add_words_batch"
        => ret.success_count + ret.error_count + Len(ret.duplicate_words)
               = ret.total_count

\* C30: starting from an empty data file, after every add_word,
\* add_words_batch, update_word and delete_word no two stored words have
\* the same text ignoring case; add_word of an existing or invalid word
\* raises ValueError and leaves the data file unchanged; the counts that
\* add_words_batch returns add up to the size of the batch.
C30_VocabularyUnique ==
    /\ []Unique
    /\ C30_AddWordRefuses
    /\ []C30_BatchCounts

====
